---- MODULE Spec2Model ----
(***************************************************************************)
(* files-api: the upload, download and delete handlers and the two stores  *)
(* they coordinate (the object store and the metadata store).              *)
(*                                                                         *)
(* Every store call of a handler is one atomic step, so that concurrent    *)
(* requests interleave between store calls exactly as goroutines do.       *)
(* Strings the code inspects (content types, file names, keys, path        *)
(* parameters, ids) are sequences of tokens; strings it only compares      *)
(* (file types, bucket names, messages) are TLA+ strings.                  *)
(***************************************************************************)
EXTENDS Integers, Sequences, FiniteSets, TLC

VARIABLES
    objects,   \* object store: the stored blobs, [bucket, key, size, ctype]
    records,   \* metadata store: the set of StorageFile rows
    nextId,    \* next id the metadata store assigns
    nextUuid,  \* number of uuid.New() values handed out so far, plus one
    req,       \* per worker: the handler it runs, its locals and its response
    removed,   \* history: rows removed by DeleteFile
    partial    \* history: ids whose DeleteFile removed the object and then
               \* failed at the metadata delete

vars == <<objects, records, nextId, nextUuid, req, removed, partial>>

---------------------------------------------------------------------------
(* Bounds *)

\* uuids handed out in a run of the full system, and in a run of uploads alone
MaxUploads == 2
MaxUploadsAlone == 2

\* uuids handed out in a run of one client over healthy stores
MaxLifecycleUploads == 2

\* length of the file names tried exhaustively, and uploads in a run of them
MaxNameLen == 3
MaxNamedUploads == 1

\* uuids handed out in a run of requests that come through the router
MaxRoutedUploads == 1

\* uuids handed out in a run where other writers change rows of the table
MaxDriftUploads == 1

\* uuids handed out in a run with process deaths
MaxCrashUploads == 2

\* uuids handed out in a run of deletes racing each other
MaxRacedUploads == 1
MaxAuthUploads == 1

\* uuids handed out in a run where clients ask for keys of every shape
MaxParamUploads == 1

\* the workers that serve requests side by side
Req == {"w1", "w2"}

---------------------------------------------------------------------------
(* Configuration *)

MaxFileSize == 10485760

ImagesBucket == "images"
MiniaturesBucket == "miniatures"
DocumentsBucket == "documents"

AllowedFileTypes ==
    << <<"image/", "jpeg">>, <<"image/", "jpg">>, <<"image/", "png">>,
       <<"image/", "gif">>, <<"image/", "webp">>, <<"application/", "pdf">> >>

---------------------------------------------------------------------------
(* Strings *)

HasPrefix(s, p) == Len(p) <= Len(s) /\ SubSeq(s, 1, Len(p)) = p

\* uuid.New().String(): the n-th value handed out; no '.' and no '/' in it
UuidTokens == <<"u1", "u2", "u3", "u4", "u5", "u6", "u7", "u8">>
UuidString(n) == UuidTokens[n]

\* filepath.Ext looking for the last '.' of the whole path
RECURSIVE ExtFromWholePath(_, _)
ExtFromWholePath(path, i) ==
    IF i < 1 THEN <<>>
    ELSE IF path[i] = "." THEN SubSeq(path, i, Len(path))
    ELSE ExtFromWholePath(path, i - 1)

\* filepath.Ext: the suffix from the last '.' of the last path element
RECURSIVE ExtFrom(_, _)
ExtFrom(path, i) ==
    IF i < 1 \/ path[i] = "/" THEN <<>>
    ELSE IF path[i] = "." THEN SubSeq(path, i, Len(path))
    ELSE ExtFrom(path, i - 1)

Ext(path) == ExtFrom(path, Len(path))

\* the key made of the extension alone, under a fixed stem
GenerateKeyWithoutUuid(n, filename) == <<"file">> \o Ext(filename)

\* the key keeping the whole file name after the uuid
GenerateKeyWithName(n, filename) == <<UuidString(n)>> \o filename

\* fmt.Sprintf("%s%s", uuid.New().String(), filepath.Ext(file.Filename)),
\* n counting the values uuid.New has handed out
GenerateKey(n, filename) == <<UuidString(n)>> \o Ext(filename)

\* the characters of a file name that are not letters or digits, with their
\* byte values; 0xC3 0xA9 are the two bytes of a UTF-8 e-acute; any other
\* token of a name is a run of letters and digits
SpecialBytes ==
    { <<"\n", 10>>, <<"\r", 13>>, <<" ", 32>>, <<"\"", 34>>, <<"$", 36>>, <<"%", 37>>,
      <<"&", 38>>, <<"+", 43>>, <<",", 44>>, <<"-", 45>>, <<".", 46>>, <<"/", 47>>,
      <<":", 58>>, <<";", 59>>, <<"=", 61>>, <<"?", 63>>, <<"@", 64>>, <<"_", 95>>,
      <<"~", 126>>, <<"0xC3", 195>>, <<"0xA9", 169>> }

IsSpecial(c) == \E p \in SpecialBytes : p[1] = c
ByteOf(c) == (CHOOSE p \in SpecialBytes : p[1] = c)[2]

UpperHex == <<"0", "1", "2", "3", "4", "5", "6", "7", "8", "9", "A", "B", "C", "D", "E", "F">>

\* net/url shouldEscape in the mode of a whole path, which keeps ';' ',' '/'
shouldEscapePath(c) ==
    /\ IsSpecial(c)
    /\ c \notin {"-", "_", ".", "~"}
    /\ (c \in {"$", "&", "+", ",", "/", ":", ";", "=", "?", "@"} => c = "?")

\* net/url shouldEscape in the mode of a path segment
shouldEscape(c) ==
    /\ IsSpecial(c)
    /\ c \notin {"-", "_", ".", "~"}
    /\ (c \in {"$", "&", "+", ",", "/", ":", ";", "=", "?", "@"}
           => c \in {"/", ";", ",", "?"})

\* url.PathEscape: '%' and two upper-case hex digits for every escaped byte
RECURSIVE PathEscape(_)
PathEscape(str) ==
    IF str = <<>> THEN <<>>
    ELSE (IF shouldEscape(Head(str))
          THEN <<"%", UpperHex[(ByteOf(Head(str)) \div 16) + 1],
                      UpperHex[(ByteOf(Head(str)) % 16) + 1]>>
          ELSE <<Head(str)>>) \o PathEscape(Tail(str))

---------------------------------------------------------------------------
(* Bucket classifier *)

NoBucket == ""

fileTypeToBucketErr(fileType) ==
    fileType \notin {"portfolio-image", "miniature-image", "document"}

\* fileTypeToBucket with the miniatures case returning the images bucket
fileTypeToBucketMiniaturesAsImages(fileType) ==
    CASE fileType = "portfolio-image" -> ImagesBucket
      [] fileType = "miniature-image" -> ImagesBucket
      [] fileType = "document" -> DocumentsBucket
      [] OTHER -> NoBucket

fileTypeToBucket(fileType) ==
    CASE fileType = "portfolio-image" -> ImagesBucket
      [] fileType = "miniature-image" -> MiniaturesBucket
      [] fileType = "document" -> DocumentsBucket
      [] OTHER -> NoBucket

isAllowedContentType(contentType) ==
    \E i \in 1..Len(AllowedFileTypes) : HasPrefix(contentType, AllowedFileTypes[i])

\* getBucketForFileTypeErr letting a document be of any application/ type
getBucketForFileTypeErrAnyApplication(fileType, contentType) ==
    IF fileTypeToBucketErr(fileType)
    THEN "invalid fileType: must be portfolio-image, miniature-image, or document"
    ELSE IF fileType \in {"portfolio-image", "miniature-image"}
              /\ ~HasPrefix(contentType, <<"image/">>)
    THEN IF fileType = "portfolio-image"
         THEN "portfolio-image requires image content type"
         ELSE "miniature-image requires image content type"
    ELSE IF fileType = "document" /\ ~HasPrefix(contentType, <<"application/">>)
    THEN "document requires PDF or Word document content type"
    ELSE ""

\* the error of getBucketForFileType, "" when it returns a bucket
getBucketForFileTypeErr(fileType, contentType) ==
    IF fileTypeToBucketErr(fileType)
    THEN "invalid fileType: must be portfolio-image, miniature-image, or document"
    ELSE IF fileType \in {"portfolio-image", "miniature-image"}
              /\ ~HasPrefix(contentType, <<"image/">>)
    THEN IF fileType = "portfolio-image"
         THEN "portfolio-image requires image content type"
         ELSE "miniature-image requires image content type"
    ELSE IF fileType = "document"
              /\ ~HasPrefix(contentType, <<"application/", "pdf">>)
              /\ ~HasPrefix(contentType, <<"application/", "msword">>)
              /\ ~HasPrefix(contentType,
                     <<"application/", "vnd.openxmlformats-officedocument.wordprocessingml.document">>)
    THEN "document requires PDF or Word document content type"
    ELSE ""

\* getBucketForFileType keeping documents in the images bucket
getBucketForFileTypeOneBucket(fileType, contentType) ==
    IF getBucketForFileTypeErr(fileType, contentType) # "" THEN NoBucket
    ELSE IF fileType = "miniature-image" THEN MiniaturesBucket
    ELSE ImagesBucket

getBucketForFileType(fileType, contentType) ==
    IF getBucketForFileTypeErr(fileType, contentType) = ""
    THEN fileTypeToBucket(fileType)
    ELSE NoBucket

---------------------------------------------------------------------------
(* Requests *)

NoKey == <<>>

NoFile == [has |-> FALSE, size |-> 0, ctype |-> <<>>, name |-> <<>>]

NoRecord ==
    [id |-> 0, bucket |-> NoBucket, key |-> NoKey, fileName |-> <<>>,
     fileType |-> "", size |-> 0, mimeType |-> <<>>]

\* what a request brings to the auth middleware: its bearer token ("none",
\* "invalid" or "valid") and the scopes a valid token puts in the context,
\* a set of <<resource, level>> pairs
NoAuth == [token |-> "none", present |-> FALSE, wellFormed |-> TRUE, levels |-> {}]

\* no header on the request, and no reply because the auth service was not asked
NoHeader == <<>>
NoReply == [err |-> FALSE, status |-> 0, json |-> FALSE, fields |-> {}]

NoHeaders == [ctype |-> <<>>, length |-> -1, disposition |-> <<>>]

\* a worker that runs no handler; retry is history: the request looked its
\* row up after an earlier DeleteFile of that id had failed at the metadata delete
Idle ==
    [op |-> "none", pc |-> "idle", status |-> 0, msg |-> "", calls |-> <<>>,
     faults |-> 0, file |-> NoFile, fileType |-> "", param |-> <<>>,
     bucket |-> NoBucket, key |-> NoKey, id |-> 0, rec |-> NoRecord,
     headers |-> NoHeaders, sent |-> 0, late |-> "", retry |-> FALSE,
     route |-> "", auth |-> NoAuth, url |-> <<>>, log |-> <<>>,
     header |-> NoHeader, reply |-> NoReply]

\* one store call as the handler issued it: res is "ok", "fail" (the store
\* reported an error) or "notfound"; present tells whether the row or object
\* the call addressed existed when the call was made
Call(name, bucket, key, id, res, present) ==
    [call |-> name, bucket |-> bucket, key |-> key, id |-> id, res |-> res,
     present |-> present]

CallsOf(r, name) == {i \in 1..Len(req[r].calls) : req[r].calls[i].call = name}

\* c.JSON / RespondError: the handler returns with this status and message
Respond(q, status, msg) == [q EXCEPT !.pc = "done", !.status = status, !.msg = msg]

\* commonHandlers.LogAndRespondError: the error goes to the service's log and
\* the handler returns with this status and message
LogAndRespondError(q, status, msg) ==
    [Respond(q, status, msg) EXCEPT !.log = Append(@, msg)]

\* a response is handed to the client before the next handler step is
\* scheduled, so at most one worker is at "done" at a time
NoneDone == \A q \in Req : req[q].pc # "done"

ObjectsAt(bucket, key) == {o \in objects : o.bucket = bucket /\ o.key = key}
HasObject(bucket, key) == ObjectsAt(bucket, key) # {}

RecordsById(id) == {f \in records : f.id = id}
\* a lookup that matches the key alone, in whatever bucket the row names
RecordsByKeyAnyBucket(bucket, key) == {f \in records : f.key = key}
RecordsByKey(bucket, key) == {f \in records : f.bucket = bucket /\ f.key = key}

---------------------------------------------------------------------------
(* Inputs *)

\* the requests of the full system: a PNG sent as an image or as a document
FileTypeInputs == {"portfolio-image", "document"}

\* the requests that exercise every check of UploadFile
AllFileTypeInputs == {"", "portfolio-image", "miniature-image", "document", "other"}

\* the multipart files a client sends: a PNG, a PDF with a hostile name, a
\* PNG over the size limit, a text file, a Word document, and no file at all
PngFile ==
    [has |-> TRUE, size |-> 1024, ctype |-> <<"image/", "png">>,
     name |-> <<"photo", ".", "png">>]
PdfFile ==
    [has |-> TRUE, size |-> 2048, ctype |-> <<"application/", "pdf">>,
     name |-> <<".", ".", "/", "cv", ".", "pdf">>]
BigFile == [PngFile EXCEPT !.size = MaxFileSize + 1]
TextFile ==
    [has |-> TRUE, size |-> 1024, ctype |-> <<"text/", "plain">>,
     name |-> <<"notes">>]
WordFile ==
    [has |-> TRUE, size |-> 1024, ctype |-> <<"application/", "msword">>,
     name |-> <<"cv", ".", "doc">>]

FileInputs == {PngFile}

BigTextFile == [TextFile EXCEPT !.size = MaxFileSize + 1]

\* a file whose content type goes on after an entry of the allow-list
PngxFile == [PngFile EXCEPT !.ctype = <<"image/", "png", "x">>]

AllFileInputs ==
    {NoFile, PngFile, PdfFile, BigFile, TextFile, WordFile, BigTextFile, PngxFile}

Init ==
    /\ objects = {}
    /\ records = {}
    /\ nextId = 1
    /\ nextUuid = 1
    /\ req = [r \in Req |-> Idle]
    /\ removed = {}
    /\ partial = {}

---------------------------------------------------------------------------
(* UploadFile *)

\* UploadCheck without the size check
UploadCheckNoSize(file, fileType) ==
    IF ~file.has THEN "file is required"
    ELSE IF fileType = ""
    THEN "fileType is required (portfolio-image, miniature-image, document)"
    ELSE IF ~isAllowedContentType(file.ctype) THEN "invalid file type"
    ELSE ""

\* UploadCheck looking at the size before the fileType field
UploadCheckSizeFirst(file, fileType) ==
    IF ~file.has THEN "file is required"
    ELSE IF file.size > MaxFileSize THEN "file too large (max 10485760 bytes)"
    ELSE IF fileType = ""
    THEN "fileType is required (portfolio-image, miniature-image, document)"
    ELSE IF ~isAllowedContentType(file.ctype) THEN "invalid file type"
    ELSE ""

\* the error of the checks UploadFile makes on the form, "" when they pass
UploadCheck(file, fileType) ==
    IF ~file.has THEN "file is required"
    ELSE IF fileType = ""
    THEN "fileType is required (portfolio-image, miniature-image, document)"
    ELSE IF file.size > MaxFileSize THEN "file too large (max 10485760 bytes)"
    ELSE IF ~isAllowedContentType(file.ctype) THEN "invalid file type"
    ELSE ""

\* entry of the handler up to its first store call: the form checks, the key,
\* file.Open and the bucket
UploadFile(r, file, fileType, openOk) ==
    /\ NoneDone
    /\ req[r].pc \in {"idle", "admitted"}
    /\ LET q == [req[r] EXCEPT !.op = "upload", !.file = file, !.fileType = fileType]
           key == GenerateKey(nextUuid, file.name)
       IN  IF UploadCheck(file, fileType) # ""
           THEN /\ openOk
                /\ req' = [req EXCEPT ![r] = Respond(q, 400, UploadCheck(file, fileType))]
                /\ UNCHANGED nextUuid
           ELSE /\ nextUuid' = nextUuid + 1
                /\ req' = [req EXCEPT ![r] =
                       IF ~openOk
                       THEN Respond([q EXCEPT !.key = key, !.faults = 1],
                                    500, "failed to open file")
                       ELSE IF getBucketForFileTypeErr(fileType, file.ctype) # ""
                       THEN Respond([q EXCEPT !.key = key], 400,
                                    getBucketForFileTypeErr(fileType, file.ctype))
                       ELSE [q EXCEPT !.pc = "put", !.key = key,
                                      !.bucket = getBucketForFileType(fileType, file.ctype)]]
    /\ UNCHANGED <<objects, records, nextId, removed, partial>>

\* UploadPut without the return after a failed PutObject
UploadPutNoReturn(r, ok) ==
    /\ NoneDone
    /\ req[r].op = "upload" /\ req[r].pc = "put"
    /\ LET q == req[r]
           c == Call("PutObject", q.bucket, q.key, 0, IF ok THEN "ok" ELSE "fail",
                     HasObject(q.bucket, q.key))
           logged == [q EXCEPT !.calls = Append(@, c), !.faults = IF ok THEN @ ELSE @ + 1]
       IN  /\ objects' = IF ok
                         THEN (objects \ ObjectsAt(q.bucket, q.key)) \cup
                                  {[bucket |-> q.bucket, key |-> q.key, size |-> q.file.size,
                                    ctype |-> q.file.ctype]}
                         ELSE objects
           /\ req' = [req EXCEPT ![r] = [logged EXCEPT !.pc = "create"]]
    /\ UNCHANGED <<records, nextId, nextUuid, removed, partial>>

\* UploadPut calling PutObject a second time after a first failure
UploadPutRetriesOnce(r, ok) ==
    /\ NoneDone
    /\ req[r].op = "upload" /\ req[r].pc = "put"
    /\ LET q == req[r]
           c == Call("PutObject", q.bucket, q.key, 0, IF ok THEN "ok" ELSE "fail",
                     HasObject(q.bucket, q.key))
           logged == [q EXCEPT !.calls = Append(@, c)]
       IN  IF ok
           THEN /\ objects' = (objects \ ObjectsAt(q.bucket, q.key)) \cup
                        {[bucket |-> q.bucket, key |-> q.key, size |-> q.file.size,
                          ctype |-> q.file.ctype]}
                /\ req' = [req EXCEPT ![r] = [logged EXCEPT !.pc = "create"]]
           ELSE /\ UNCHANGED objects
                /\ req' = [req EXCEPT ![r] =
                       IF q.calls = <<>>
                       THEN [logged EXCEPT !.faults = @ + 1]
                       ELSE Respond([logged EXCEPT !.faults = @ + 1], 500,
                                    "failed to upload file")]
    /\ UNCHANGED <<records, nextId, nextUuid, removed, partial>>

\* h.storage.PutObject(bucket, key, src, file.Size, contentType)
UploadPut(r, ok) ==
    /\ NoneDone
    /\ req[r].op = "upload" /\ req[r].pc = "put"
    /\ LET q == req[r]
           c == Call("PutObject", q.bucket, q.key, 0, IF ok THEN "ok" ELSE "fail",
                     HasObject(q.bucket, q.key))
           logged == [q EXCEPT !.calls = Append(@, c)]
       IN  IF ok
           THEN /\ objects' = (objects \ ObjectsAt(q.bucket, q.key)) \cup
                        {[bucket |-> q.bucket, key |-> q.key, size |-> q.file.size,
                          ctype |-> q.file.ctype]}
                /\ req' = [req EXCEPT ![r] = [logged EXCEPT !.pc = "create"]]
           ELSE /\ UNCHANGED objects
                /\ req' = [req EXCEPT ![r] =
                       Respond([logged EXCEPT !.faults = @ + 1], 500, "failed to upload file")]
    /\ UNCHANGED <<records, nextId, nextUuid, removed, partial>>

\* the url naming the bucket in place of the category
UploadUrlByBucket(q) == <<"/api/v1/files/", q.bucket, "/">> \o q.key

\* fmt.Sprintf("/api/v1/files/%s/%s", fileType, key)
UploadUrl(q) == <<"/api/v1/files/", q.fileType, "/">> \o q.key

\* UploadCreate handing CreateFile the client's file name as the key
UploadCreateNameAsKey(r, ok) ==
    /\ NoneDone
    /\ req[r].op = "upload" /\ req[r].pc = "create"
    /\ LET q == req[r]
           c == Call("CreateFile", q.bucket, q.file.name, 0, IF ok THEN "ok" ELSE "fail", FALSE)
           logged == [q EXCEPT !.calls = Append(@, c)]
           row == [id |-> nextId, bucket |-> q.bucket, key |-> q.file.name,
                   fileName |-> q.file.name, fileType |-> q.fileType,
                   size |-> q.file.size, mimeType |-> q.file.ctype]
       IN  IF ok
           THEN /\ records' = records \cup {row}
                /\ nextId' = nextId + 1
                /\ req' = [req EXCEPT ![r] = Respond([logged EXCEPT !.rec = row, !.id = row.id], 200, "")]
           ELSE /\ UNCHANGED <<records, nextId>>
                /\ req' = [req EXCEPT ![r] = [logged EXCEPT !.pc = "cleanup", !.faults = @ + 1]]
    /\ UNCHANGED <<objects, nextUuid, removed, partial>>

\* UploadCreate handing CreateFile no size
UploadCreateWithoutSize(r, ok) ==
    /\ NoneDone
    /\ req[r].op = "upload" /\ req[r].pc = "create"
    /\ LET q == req[r]
           c == Call("CreateFile", q.bucket, q.key, 0, IF ok THEN "ok" ELSE "fail", FALSE)
           logged == [q EXCEPT !.calls = Append(@, c)]
           row == [id |-> nextId, bucket |-> q.bucket, key |-> q.key,
                   fileName |-> q.file.name, fileType |-> q.fileType,
                   size |-> 0, mimeType |-> q.file.ctype]
       IN  IF ok
           THEN /\ records' = records \cup {row}
                /\ nextId' = nextId + 1
                /\ req' = [req EXCEPT ![r] = Respond([logged EXCEPT !.rec = row, !.id = row.id,
                                                               !.url = UploadUrl(q)], 200, "")]
           ELSE /\ UNCHANGED <<records, nextId>>
                /\ req' = [req EXCEPT ![r] = [logged EXCEPT !.pc = "cleanup", !.faults = @ + 1]]
    /\ UNCHANGED <<objects, nextUuid, removed, partial>>

\* h.repo.CreateFile(bucket, key, file.Filename, fileType, file.Size, contentType)
UploadCreate(r, ok) ==
    /\ NoneDone
    /\ req[r].op = "upload" /\ req[r].pc = "create"
    /\ LET q == req[r]
           c == Call("CreateFile", q.bucket, q.key, 0, IF ok THEN "ok" ELSE "fail", FALSE)
           logged == [q EXCEPT !.calls = Append(@, c)]
           row == [id |-> nextId, bucket |-> q.bucket, key |-> q.key,
                   fileName |-> q.file.name, fileType |-> q.fileType,
                   size |-> q.file.size, mimeType |-> q.file.ctype]
       IN  IF ok
           THEN /\ records' = records \cup {row}
                /\ nextId' = nextId + 1
                /\ req' = [req EXCEPT ![r] = Respond([logged EXCEPT !.rec = row, !.id = row.id,
                                                               !.url = UploadUrl(q)], 200, "")]
           ELSE /\ UNCHANGED <<records, nextId>>
                /\ req' = [req EXCEPT ![r] = [logged EXCEPT !.pc = "cleanup", !.faults = @ + 1]]
    /\ UNCHANGED <<objects, nextUuid, removed, partial>>

\* UploadCleanup removing every object that has no row along with its own
UploadCleanupSweeps(r, ok) ==
    /\ NoneDone
    /\ req[r].op = "upload" /\ req[r].pc = "cleanup"
    /\ LET q == req[r]
           c == Call("DeleteObject", q.bucket, q.key, 0, IF ok THEN "ok" ELSE "fail",
                     HasObject(q.bucket, q.key))
           logged == [q EXCEPT !.calls = Append(@, c), !.faults = IF ok THEN @ ELSE @ + 1]
       IN  /\ objects' = IF ok
                         THEN {o \in objects : RecordsByKey(o.bucket, o.key) # {}}
                         ELSE objects
           /\ req' = [req EXCEPT ![r] = Respond(logged, 500, "failed to create file record")]
    /\ UNCHANGED <<records, nextId, nextUuid, removed, partial>>

\* UploadCleanup reporting the error of the compensating delete
UploadCleanupReportsError(r, ok) ==
    /\ NoneDone
    /\ req[r].op = "upload" /\ req[r].pc = "cleanup"
    /\ LET q == req[r]
           c == Call("DeleteObject", q.bucket, q.key, 0, IF ok THEN "ok" ELSE "fail",
                     HasObject(q.bucket, q.key))
           logged == [q EXCEPT !.calls = Append(@, c), !.faults = IF ok THEN @ ELSE @ + 1]
       IN  /\ objects' = IF ok THEN objects \ ObjectsAt(q.bucket, q.key) ELSE objects
           /\ req' = [req EXCEPT ![r] =
                  Respond(logged, 500, IF ok THEN "failed to create file record"
                                             ELSE "failed to clean up file")]
    /\ UNCHANGED <<records, nextId, nextUuid, removed, partial>>

\* the compensating h.storage.DeleteObject(bucket, key), its error dropped
UploadCleanup(r, ok) ==
    /\ NoneDone
    /\ req[r].op = "upload" /\ req[r].pc = "cleanup"
    /\ LET q == req[r]
           c == Call("DeleteObject", q.bucket, q.key, 0, IF ok THEN "ok" ELSE "fail",
                     HasObject(q.bucket, q.key))
           logged == [q EXCEPT !.calls = Append(@, c), !.faults = IF ok THEN @ ELSE @ + 1]
       IN  /\ objects' = IF ok THEN objects \ ObjectsAt(q.bucket, q.key) ELSE objects
           /\ req' = [req EXCEPT ![r] = Respond(logged, 500, "failed to create file record")]
    /\ UNCHANGED <<records, nextId, nextUuid, removed, partial>>

---------------------------------------------------------------------------
(* DeleteFile *)

DigitChars == <<"0", "1", "2", "3", "4", "5", "6", "7", "8", "9">>
IsDigit(c) == \E d \in 1..10 : DigitChars[d] = c
DigitVal(c) == (CHOOSE d \in 1..10 : DigitChars[d] = c) - 1

\* strconv.ParseInt(s, 10, 64) on strings too short to leave int64: an
\* optional sign, then one or more decimal digits
Unsigned(s) == IF Len(s) > 0 /\ s[1] \in {"+", "-"} THEN Tail(s) ELSE s
ParseIntErr(s) == Unsigned(s) = <<>> \/ \E i \in 1..Len(Unsigned(s)) : ~IsDigit(Unsigned(s)[i])

RECURSIVE DecimalValue(_)
DecimalValue(ds) ==
    IF ds = <<>> THEN 0
    ELSE 10 * DecimalValue(SubSeq(ds, 1, Len(ds) - 1)) + DigitVal(ds[Len(ds)])

ParseInt(s) ==
    IF Len(s) > 0 /\ s[1] = "-" THEN 0 - DecimalValue(Unsigned(s)) ELSE DecimalValue(Unsigned(s))

\* the decimal form of a small id, as a client writes it in the path
IdString(n) == <<DigitChars[n + 1]>>

IdInputs == {IdString(n) : n \in 1..(MaxUploads + 1)} \cup { <<"i", "d">>, <<"1", ".", "5">> }

\* entry of the handler up to its first store call: the id is parsed
DeleteFile(r, idStr) ==
    /\ NoneDone
    /\ req[r].pc \in {"idle", "admitted"}
    /\ LET q == [req[r] EXCEPT !.op = "delete", !.param = idStr]
       IN  req' = [req EXCEPT ![r] =
               IF ParseIntErr(idStr)
               THEN Respond(q, 400, "invalid file ID")
               ELSE [q EXCEPT !.pc = "lookup", !.id = ParseInt(idStr)]]
    /\ UNCHANGED <<objects, records, nextId, nextUuid, removed, partial>>

\* DeleteLookup going on to the metadata delete without the object delete
DeleteLookupSkipsObject(r, ok) ==
    /\ NoneDone
    /\ req[r].op = "delete" /\ req[r].pc = "lookup"
    /\ LET q == req[r]
           found == RecordsById(q.id)
           res == IF ~ok THEN "fail" ELSE IF found = {} THEN "notfound" ELSE "ok"
           c == Call("GetFileByID", NoBucket, NoKey, q.id, res, found # {})
           logged == [q EXCEPT !.calls = Append(@, c), !.retry = q.id \in partial]
           file == CHOOSE f \in found : TRUE
       IN  req' = [req EXCEPT ![r] =
               IF res = "fail"
               THEN Respond([logged EXCEPT !.faults = @ + 1], 500, "failed to fetch file")
               ELSE IF res = "notfound"
               THEN Respond(logged, 404, "file not found")
               ELSE IF fileTypeToBucketErr(file.fileType)
               THEN Respond([logged EXCEPT !.rec = file], 500, "invalid file type in database")
               ELSE [logged EXCEPT !.pc = "delrec", !.rec = file, !.key = file.key,
                                   !.bucket = fileTypeToBucket(file.fileType)]]
    /\ UNCHANGED <<objects, records, nextId, nextUuid, removed, partial>>

\* DeleteLookup answering 404 whatever the error of GetFileByID
DeleteLookupAllNotFound(r, ok) ==
    /\ NoneDone
    /\ req[r].op = "delete" /\ req[r].pc = "lookup"
    /\ LET q == req[r]
           found == RecordsById(q.id)
           res == IF ~ok THEN "fail" ELSE IF found = {} THEN "notfound" ELSE "ok"
           c == Call("GetFileByID", NoBucket, NoKey, q.id, res, found # {})
           logged == [q EXCEPT !.calls = Append(@, c), !.retry = q.id \in partial]
           file == CHOOSE f \in found : TRUE
       IN  req' = [req EXCEPT ![r] =
               IF res = "fail"
               THEN Respond([logged EXCEPT !.faults = @ + 1], 404, "file not found")
               ELSE IF res = "notfound"
               THEN Respond(logged, 404, "file not found")
               ELSE IF fileTypeToBucketErr(file.fileType)
               THEN Respond([logged EXCEPT !.rec = file], 500, "invalid file type in database")
               ELSE [logged EXCEPT !.pc = "delobj", !.rec = file, !.key = file.key,
                                   !.bucket = fileTypeToBucket(file.fileType)]]
    /\ UNCHANGED <<objects, records, nextId, nextUuid, removed, partial>>

\* DeleteLookup going on with the row's stored bucket when the stored file
\* type names none
DeleteLookupStoredBucket(r, ok) ==
    /\ NoneDone
    /\ req[r].op = "delete" /\ req[r].pc = "lookup"
    /\ LET q == req[r]
           found == RecordsById(q.id)
           res == IF ~ok THEN "fail" ELSE IF found = {} THEN "notfound" ELSE "ok"
           c == Call("GetFileByID", NoBucket, NoKey, q.id, res, found # {})
           logged == [q EXCEPT !.calls = Append(@, c), !.retry = q.id \in partial]
           file == CHOOSE f \in found : TRUE
       IN  req' = [req EXCEPT ![r] =
               IF res = "fail"
               THEN Respond([logged EXCEPT !.faults = @ + 1], 500, "failed to fetch file")
               ELSE IF res = "notfound"
               THEN Respond(logged, 404, "file not found")
               ELSE [logged EXCEPT !.pc = "delobj", !.rec = file, !.key = file.key,
                                   !.bucket = IF fileTypeToBucketErr(file.fileType)
                                              THEN file.bucket
                                              ELSE fileTypeToBucket(file.fileType)]]
    /\ UNCHANGED <<objects, records, nextId, nextUuid, removed, partial>>

\* h.repo.GetFileByID(id), then the bucket of the stored file type
DeleteLookup(r, ok) ==
    /\ NoneDone
    /\ req[r].op = "delete" /\ req[r].pc = "lookup"
    /\ LET q == req[r]
           found == RecordsById(q.id)
           res == IF ~ok THEN "fail" ELSE IF found = {} THEN "notfound" ELSE "ok"
           c == Call("GetFileByID", NoBucket, NoKey, q.id, res, found # {})
           logged == [q EXCEPT !.calls = Append(@, c), !.retry = q.id \in partial]
           file == CHOOSE f \in found : TRUE
       IN  req' = [req EXCEPT ![r] =
               IF res = "fail"
               THEN Respond([logged EXCEPT !.faults = @ + 1], 500, "failed to fetch file")
               ELSE IF res = "notfound"
               THEN Respond(logged, 404, "file not found")
               ELSE IF fileTypeToBucketErr(file.fileType)
               THEN LogAndRespondError([logged EXCEPT !.rec = file], 500,
                                       "invalid file type in database")
               ELSE [logged EXCEPT !.pc = "delobj", !.rec = file, !.key = file.key,
                                   !.bucket = fileTypeToBucket(file.fileType)]]
    /\ UNCHANGED <<objects, records, nextId, nextUuid, removed, partial>>

\* DeleteObj without the return after a failed DeleteObject
DeleteObjNoReturn(r, ok) ==
    /\ NoneDone
    /\ req[r].op = "delete" /\ req[r].pc = "delobj"
    /\ LET q == req[r]
           c == Call("DeleteObject", q.bucket, q.key, q.id, IF ok THEN "ok" ELSE "fail",
                     HasObject(q.bucket, q.key))
           logged == [q EXCEPT !.calls = Append(@, c), !.faults = IF ok THEN @ ELSE @ + 1]
       IN  /\ objects' = IF ok THEN objects \ ObjectsAt(q.bucket, q.key) ELSE objects
           /\ req' = [req EXCEPT ![r] = [logged EXCEPT !.pc = "delrec"]]
    /\ UNCHANGED <<records, nextId, nextUuid, removed, partial>>

\* DeleteObj asking the documents bucket whatever the file type
DeleteObjWrongBucket(r, ok) ==
    /\ NoneDone
    /\ req[r].op = "delete" /\ req[r].pc = "delobj"
    /\ LET q == req[r]
           c == Call("DeleteObject", DocumentsBucket, q.key, q.id, IF ok THEN "ok" ELSE "fail",
                     HasObject(DocumentsBucket, q.key))
           logged == [q EXCEPT !.calls = Append(@, c)]
       IN  IF ok
           THEN /\ objects' = objects \ ObjectsAt(DocumentsBucket, q.key)
                /\ req' = [req EXCEPT ![r] = [logged EXCEPT !.pc = "delrec"]]
           ELSE /\ UNCHANGED objects
                /\ req' = [req EXCEPT ![r] =
                       Respond([logged EXCEPT !.faults = @ + 1], 500,
                               "failed to delete file from storage")]
    /\ UNCHANGED <<records, nextId, nextUuid, removed, partial>>

\* DeleteObj over a store that reports a missing object as an error
DeleteObjMissingIsError(r, ok) ==
    /\ NoneDone
    /\ req[r].op = "delete" /\ req[r].pc = "delobj"
    /\ LET q == req[r]
           present == HasObject(q.bucket, q.key)
           res == IF ~ok THEN "fail" ELSE IF present THEN "ok" ELSE "notfound"
           c == Call("DeleteObject", q.bucket, q.key, q.id, res, present)
           logged == [q EXCEPT !.calls = Append(@, c), !.faults = IF ok THEN @ ELSE @ + 1]
       IN  IF res = "ok"
           THEN /\ objects' = objects \ ObjectsAt(q.bucket, q.key)
                /\ req' = [req EXCEPT ![r] = [logged EXCEPT !.pc = "delrec"]]
           ELSE /\ UNCHANGED objects
                /\ req' = [req EXCEPT ![r] =
                       Respond(logged, 500, "failed to delete file from storage")]
    /\ UNCHANGED <<records, nextId, nextUuid, removed, partial>>

\* h.storage.DeleteObject(bucket, file.S3Key); removing a missing object is no error
DeleteObj(r, ok) ==
    /\ NoneDone
    /\ req[r].op = "delete" /\ req[r].pc = "delobj"
    /\ LET q == req[r]
           c == Call("DeleteObject", q.bucket, q.key, q.id, IF ok THEN "ok" ELSE "fail",
                     HasObject(q.bucket, q.key))
           logged == [q EXCEPT !.calls = Append(@, c)]
       IN  IF ok
           THEN /\ objects' = objects \ ObjectsAt(q.bucket, q.key)
                /\ req' = [req EXCEPT ![r] = [logged EXCEPT !.pc = "delrec"]]
           ELSE /\ UNCHANGED objects
                /\ req' = [req EXCEPT ![r] =
                       LogAndRespondError([logged EXCEPT !.faults = @ + 1], 500,
                               "failed to delete file from storage")]
    /\ UNCHANGED <<records, nextId, nextUuid, removed, partial>>

\* DeleteRec taking a row that is already gone for an error
DeleteRecMissingIsError(r, ok) ==
    /\ NoneDone
    /\ req[r].op = "delete" /\ req[r].pc = "delrec"
    /\ LET q == req[r]
           there == RecordsById(q.id) # {}
           c == Call("DeleteFile", NoBucket, NoKey, q.id,
                     IF ok /\ there THEN "ok" ELSE "fail", there)
           logged == [q EXCEPT !.calls = Append(@, c)]
       IN  IF ok /\ there
           THEN /\ records' = records \ RecordsById(q.id)
                /\ removed' = removed \cup RecordsById(q.id)
                /\ UNCHANGED partial
                /\ req' = [req EXCEPT ![r] = Respond(logged, 200, "file deleted successfully")]
           ELSE /\ UNCHANGED <<records, removed>>
                /\ partial' = partial \cup {q.id}
                /\ req' = [req EXCEPT ![r] =
                       LogAndRespondError([logged EXCEPT !.faults = @ + 1], 500,
                               "failed to delete file record")]
    /\ UNCHANGED <<objects, nextId, nextUuid>>

\* DeleteRec answering for a delete that leaves the row in place
DeleteRecKeepsRow(r, ok) ==
    /\ NoneDone
    /\ req[r].op = "delete" /\ req[r].pc = "delrec"
    /\ LET q == req[r]
           c == Call("DeleteFile", NoBucket, NoKey, q.id, IF ok THEN "ok" ELSE "fail",
                     RecordsById(q.id) # {})
           logged == [q EXCEPT !.calls = Append(@, c)]
       IN  IF ok
           THEN /\ removed' = removed \cup RecordsById(q.id)
                /\ UNCHANGED <<records, partial>>
                /\ req' = [req EXCEPT ![r] = Respond(logged, 200, "file deleted successfully")]
           ELSE /\ UNCHANGED <<records, removed>>
                /\ partial' = partial \cup {q.id}
                /\ req' = [req EXCEPT ![r] =
                       Respond([logged EXCEPT !.faults = @ + 1], 500,
                               "failed to delete file record")]
    /\ UNCHANGED <<objects, nextId, nextUuid>>

\* h.repo.DeleteFile(id); deleting a missing row is no error
DeleteRec(r, ok) ==
    /\ NoneDone
    /\ req[r].op = "delete" /\ req[r].pc = "delrec"
    /\ LET q == req[r]
           c == Call("DeleteFile", NoBucket, NoKey, q.id, IF ok THEN "ok" ELSE "fail",
                     RecordsById(q.id) # {})
           logged == [q EXCEPT !.calls = Append(@, c)]
       IN  IF ok
           THEN /\ records' = records \ RecordsById(q.id)
                /\ removed' = removed \cup RecordsById(q.id)
                /\ UNCHANGED partial
                /\ req' = [req EXCEPT ![r] = Respond(logged, 200, "file deleted successfully")]
           ELSE /\ UNCHANGED <<records, removed>>
                /\ partial' = partial \cup {q.id}
                /\ req' = [req EXCEPT ![r] =
                       LogAndRespondError([logged EXCEPT !.faults = @ + 1], 500,
                               "failed to delete file record")]
    /\ UNCHANGED <<objects, nextId, nextUuid>>

---------------------------------------------------------------------------
(* DownloadFile *)

\* the *key path parameter with every leading '/' removed
RECURSIVE StripEverySlash(_)
StripEverySlash(param) ==
    IF Len(param) > 0 /\ param[1] = "/" THEN StripEverySlash(Tail(param)) ELSE param

\* the *key path parameter with gin's leading '/' removed
StripSlash(param) == IF Len(param) > 0 /\ param[1] = "/" THEN Tail(param) ELSE param

\* the key parameters clients ask for: the keys of the rows that exist or
\* existed, and a key no upload produced
KeyParamInputs ==
    {<<"/">> \o f.key : f \in records \cup removed} \cup { <<"/", "nosuch", ".", "png">> }

DownloadTypeInputs == {"portfolio-image", "document", "other"}

\* entry of the handler up to its first store call: the key and the bucket
DownloadFile(r, fileType, param) ==
    /\ NoneDone
    /\ req[r].pc \in {"idle", "admitted"}
    /\ LET q == [req[r] EXCEPT !.op = "download", !.fileType = fileType, !.param = param,
                             !.key = StripSlash(param)]
       IN  req' = [req EXCEPT ![r] =
               IF fileTypeToBucketErr(fileType)
               THEN Respond(q, 400,
                        "invalid fileType: must be portfolio-image, miniature-image, or document")
               ELSE [q EXCEPT !.pc = "lookup", !.bucket = fileTypeToBucket(fileType)]]
    /\ UNCHANGED <<objects, records, nextId, nextUuid, removed, partial>>

\* DownloadLookup answering 404 whatever the error of GetFileByKey
DownloadLookupAllNotFound(r, ok) ==
    /\ NoneDone
    /\ req[r].op = "download" /\ req[r].pc = "lookup"
    /\ LET q == req[r]
           found == RecordsByKey(q.bucket, q.key)
           res == IF ~ok THEN "fail" ELSE IF found = {} THEN "notfound" ELSE "ok"
           c == Call("GetFileByKey", q.bucket, q.key, 0, res, found # {})
           logged == [q EXCEPT !.calls = Append(@, c)]
           file == CHOOSE f \in found : TRUE
       IN  req' = [req EXCEPT ![r] =
               IF res = "fail"
               THEN Respond([logged EXCEPT !.faults = @ + 1], 404, "file not found in database")
               ELSE IF res = "notfound"
               THEN Respond(logged, 404, "file not found in database")
               ELSE [logged EXCEPT !.pc = "getobj", !.rec = file, !.id = file.id]]
    /\ UNCHANGED <<objects, records, nextId, nextUuid, removed, partial>>

\* h.repo.GetFileByKey(bucket, key)
DownloadLookup(r, ok) ==
    /\ NoneDone
    /\ req[r].op = "download" /\ req[r].pc = "lookup"
    /\ LET q == req[r]
           found == RecordsByKey(q.bucket, q.key)
           res == IF ~ok THEN "fail" ELSE IF found = {} THEN "notfound" ELSE "ok"
           c == Call("GetFileByKey", q.bucket, q.key, 0, res, found # {})
           logged == [q EXCEPT !.calls = Append(@, c)]
           file == CHOOSE f \in found : TRUE
       IN  req' = [req EXCEPT ![r] =
               IF res = "fail"
               THEN Respond([logged EXCEPT !.faults = @ + 1], 500, "failed to fetch file record")
               ELSE IF res = "notfound"
               THEN Respond(logged, 404, "file not found in database")
               ELSE [logged EXCEPT !.pc = "getobj", !.rec = file, !.id = file.id]]
    /\ UNCHANGED <<objects, records, nextId, nextUuid, removed, partial>>

\* DownloadGetObject removing the row when the object cannot be fetched
DownloadGetObjectDropsRow(r, ok) ==
    /\ NoneDone
    /\ req[r].op = "download" /\ req[r].pc = "getobj"
    /\ LET q == req[r]
           present == HasObject(q.bucket, q.key)
           res == IF ok THEN "ok" ELSE IF present THEN "fail" ELSE "notfound"
           c == Call("GetObject", q.bucket, q.key, 0, res, present)
           logged == [q EXCEPT !.calls = Append(@, c),
                               !.faults = IF res = "fail" THEN @ + 1 ELSE @]
       IN  /\ req' = [req EXCEPT ![r] =
                  IF ok THEN [logged EXCEPT !.pc = "stat"]
                  ELSE LogAndRespondError(logged, 404, "file not found in storage")]
           /\ records' = IF ok THEN records ELSE records \ RecordsById(q.id)
    /\ UNCHANGED <<objects, nextId, nextUuid, removed, partial>>

\* h.storage.GetObject(bucket, key): an error, or a handle on the object that
\* the store has not been asked about yet
DownloadGetObject(r, ok) ==
    /\ NoneDone
    /\ req[r].op = "download" /\ req[r].pc = "getobj"
    /\ LET q == req[r]
           present == HasObject(q.bucket, q.key)
           res == IF ok THEN "ok" ELSE IF present THEN "fail" ELSE "notfound"
           c == Call("GetObject", q.bucket, q.key, 0, res, present)
           logged == [q EXCEPT !.calls = Append(@, c),
                               !.faults = IF res = "fail" THEN @ + 1 ELSE @]
       IN  req' = [req EXCEPT ![r] =
               IF ok THEN [logged EXCEPT !.pc = "stat"]
               ELSE LogAndRespondError(logged, 404, "file not found in storage")]
    /\ UNCHANGED <<objects, records, nextId, nextUuid, removed, partial>>

\* StatResult answering 500 when the audit call fails
StatResultAuditChecked(q, at, ok, auditOk) ==
    LET res == IF at = {} THEN "notfound" ELSE IF ok THEN "ok" ELSE "fail"
        c == Call("Stat", q.bucket, q.key, 0, res, at # {})
        logged == [q EXCEPT !.calls = Append(@, c),
                            !.faults = IF res = "fail" THEN @ + 1 ELSE @]
        stat == CHOOSE o \in at : TRUE
        audit == Call("LogAction", NoBucket, NoKey, q.id,
                      IF auditOk THEN "ok" ELSE "fail", FALSE)
        headers == [ctype |-> stat.ctype, length |-> stat.size,
                    disposition |->
                        <<"attachment; filename*=UTF-8''">> \o PathEscape(q.rec.fileName)]
    IN  IF res # "ok"
        THEN Respond(logged, 500, "failed to get file info")
        ELSE IF ~auditOk
        THEN Respond([logged EXCEPT !.calls = Append(@, audit), !.headers = headers],
                     500, "failed to log action")
        ELSE [logged EXCEPT !.pc = "copy", !.calls = Append(@, audit), !.headers = headers]

\* StatResult taking Content-Type and Content-Length from the row
StatResultFromRecord(q, at, ok, auditOk) ==
    LET res == IF at = {} THEN "notfound" ELSE IF ok THEN "ok" ELSE "fail"
        c == Call("Stat", q.bucket, q.key, 0, res, at # {})
        logged == [q EXCEPT !.calls = Append(@, c),
                            !.faults = IF res = "fail" THEN @ + 1 ELSE @]
        audit == Call("LogAction", NoBucket, NoKey, q.id,
                      IF auditOk THEN "ok" ELSE "fail", FALSE)
    IN  IF res # "ok"
        THEN Respond(logged, 500, "failed to get file info")
        ELSE [logged EXCEPT !.pc = "copy",
                            !.calls = Append(@, audit),
                            !.headers =
                                [ctype |-> q.rec.mimeType, length |-> q.rec.size,
                                 disposition |->
                                     <<"attachment; filename*=UTF-8''">>
                                         \o PathEscape(q.rec.fileName)]]

\* what object.Stat(), the three headers and the audit call make of request
\* q, `at` being the objects under its key; the error of the audit call is
\* dropped
StatResult(q, at, ok, auditOk) ==
    LET res == IF at = {} THEN "notfound" ELSE IF ok THEN "ok" ELSE "fail"
        c == Call("Stat", q.bucket, q.key, 0, res, at # {})
        logged == [q EXCEPT !.calls = Append(@, c),
                            !.faults = IF res = "fail" THEN @ + 1 ELSE @]
        stat == CHOOSE o \in at : TRUE
        audit == Call("LogAction", NoBucket, NoKey, q.id,
                      IF auditOk THEN "ok" ELSE "fail", FALSE)
    IN  IF res # "ok"
        THEN LogAndRespondError(logged, 500, "failed to get file info")
        ELSE [logged EXCEPT !.pc = "copy",
                            !.calls = Append(@, audit),
                            !.headers =
                                [ctype |-> stat.ctype, length |-> stat.size,
                                 disposition |->
                                     <<"attachment; filename*=UTF-8''">>
                                         \o PathEscape(q.rec.fileName)]]

\* object.Stat(), the three headers, and the audit call
DownloadStat(r, ok, auditOk) ==
    /\ NoneDone
    /\ req[r].op = "download" /\ req[r].pc = "stat"
    /\ req' = [req EXCEPT ![r] =
           StatResult(req[r], ObjectsAt(req[r].bucket, req[r].key), ok, auditOk)]
    /\ UNCHANGED <<objects, records, nextId, nextUuid, removed, partial>>

\* what io.Copy(c.Writer, object) makes of request q: the first read fetches
\* the object; an error before the first byte leaves the status unwritten, a
\* later one does not
CopyResult(q, at, outcome) ==
    LET obj == CHOOSE o \in at : TRUE
        res == IF at = {} THEN "notfound" ELSE IF outcome = "ok" THEN "ok" ELSE "fail"
        c == Call("Read", q.bucket, q.key, 0, res, at # {})
        logged == [q EXCEPT !.calls = Append(@, c),
                            !.faults = IF res = "fail" THEN @ + 1 ELSE @]
    IN  IF res = "ok"
        THEN Respond([logged EXCEPT !.sent = obj.size], 200, "")
        ELSE IF res = "notfound" \/ outcome = "early"
        THEN LogAndRespondError(logged, 500, "failed to stream file")
        ELSE [Respond([logged EXCEPT !.sent = obj.size - 1], 200, "")
                 EXCEPT !.late = "failed to stream file",
                        !.log = Append(@, "failed to stream file")]

\* io.Copy(c.Writer, object)
DownloadCopy(r, outcome) ==
    /\ NoneDone
    /\ req[r].op = "download" /\ req[r].pc = "copy"
    /\ req' = [req EXCEPT ![r] =
           CopyResult(req[r], ObjectsAt(req[r].bucket, req[r].key), outcome)]
    /\ UNCHANGED <<objects, records, nextId, nextUuid, removed, partial>>

CopyOutcomes == {"ok", "early", "midway"}

---------------------------------------------------------------------------
(* The router and its middleware *)

\* v1.GET("/files/:fileType/*key") under the /api/v1 group: the parameters
\* gin takes from a request path, :fileType up to the next '/', *key from
\* that '/' on
GetFilesParams(path) == [fileType |-> path[2], key |-> SubSeq(path, 3, Len(path))]

PostFiles == "POST /files"
DeleteFilesId == "DELETE /files/:id"
GetFiles == "GET /files/:fileType/*key"
Routes == {PostFiles, DeleteFilesId, GetFiles}

ResourceFiles == "files"

\* RouteLevel requiring only LevelEdit of DELETE /files/:id
RouteLevelEditForBoth(route) ==
    CASE route = PostFiles -> "edit"
      [] route = DeleteFilesId -> "edit"
      [] OTHER -> ""

\* the level RequirePermission is given on each protected route; "" for the
\* public route, which has no middleware
RouteLevel(route) ==
    CASE route = PostFiles -> "edit"
      [] route = DeleteFilesId -> "delete"
      [] OTHER -> ""

\* the permission levels in rising order; a level that is none of them ranks
\* with "none"
LevelRank(level) ==
    CASE level = "read" -> 1
      [] level = "edit" -> 2
      [] level = "delete" -> 3
      [] OTHER -> 0

\* the level a scopes map grants on a resource, "none" without an entry
GrantedLevel(levels, resource) ==
    IF \E p \in levels : p[1] = resource
    THEN (CHOOSE p \in levels : p[1] = resource)[2]
    ELSE "none"

\* ValidateToken: 0 when the token is valid, else 401
ValidateToken(auth) == IF auth.token = "valid" THEN 0 ELSE 401

\* RequirePermission(resource, level): 0 when it calls c.Next()
RequirePermission(auth, resource, level) ==
    IF ~auth.present THEN 401
    ELSE IF ~auth.wellFormed THEN 500
    ELSE IF LevelRank(GrantedLevel(auth.levels, resource)) < LevelRank(level) THEN 403
    ELSE 0

\* the status the middleware of a route aborts with, 0 when the handler runs
GateTokenOnlyStatus(route, auth) ==
    IF RouteLevel(route) = "" THEN 0 ELSE ValidateToken(auth)

GateStatus(route, auth) ==
    IF RouteLevel(route) = "" THEN 0
    ELSE IF ValidateToken(auth) # 0 THEN ValidateToken(auth)
    ELSE RequirePermission(auth, ResourceFiles, RouteLevel(route))

\* the error of the 403 body; the other bodies are not inspected
GateMessage(status) == IF status = 403 THEN "insufficient permissions" ELSE ""

\* Gate with the token check alone in front of the protected routes
GateTokenOnly(r, route, auth) ==
    /\ NoneDone
    /\ req[r].pc = "idle"
    /\ LET q == [Idle EXCEPT !.op = "gate", !.route = route, !.auth = auth]
           status == GateTokenOnlyStatus(route, auth)
       IN  req' = [req EXCEPT ![r] =
               IF status # 0 THEN Respond(q, status, GateMessage(status))
               ELSE [q EXCEPT !.pc = "admitted"]]
    /\ UNCHANGED <<objects, records, nextId, nextUuid, removed, partial>>

\* a request reaches its route: the middleware in front of the handler aborts
\* it, or hands it on to the handler
Gate(r, route, auth) ==
    /\ NoneDone
    /\ req[r].pc = "idle"
    /\ LET q == [Idle EXCEPT !.op = "gate", !.route = route, !.auth = auth]
           status == GateStatus(route, auth)
       IN  req' = [req EXCEPT ![r] =
               IF status # 0 THEN Respond(q, status, GateMessage(status))
               ELSE [q EXCEPT !.pc = "admitted"]]
    /\ UNCHANGED <<objects, records, nextId, nextUuid, removed, partial>>

\* the requests that arrive: without a token, with a bad one, with a valid
\* one that carries no scopes, malformed scopes, or scopes of each level
ScopesOf(levels) ==
    [token |-> "valid", present |-> TRUE, wellFormed |-> TRUE, levels |-> levels]
AuthInputs ==
    { NoAuth,
      [NoAuth EXCEPT !.token = "invalid"],
      [NoAuth EXCEPT !.token = "valid"],
      [NoAuth EXCEPT !.token = "valid", !.present = TRUE, !.wellFormed = FALSE],
      ScopesOf({}),
      ScopesOf({<<"projects", "delete">>}) }
        \cup {ScopesOf({<<ResourceFiles, level>>}) : level \in {"none", "read", "edit", "delete"}}

\* the public route is asked without a token, and with a token that grants
\* nothing on files
PublicAuthInputs == {NoAuth, ScopesOf({<<"projects", "delete">>})}

---------------------------------------------------------------------------
(* The classifier called on its own *)

\* the categories and content types the classifier is tried with
ClassifyTypeInputs ==
    {"", "portfolio-image", "miniature-image", "document", "other", "Document",
     "documents", "images", "portfolio-image/"}
ContentTypeInputs ==
    { <<>>, <<"image">>, <<"image/">>, <<"image/", "png">>, <<"image/", "svg+xml">>,
      <<"Image/", "png">>, <<"text/", "plain">>, <<"application/">>,
      <<"application/", "pdf">>, <<"application/", "pdf", "; charset=binary">>,
      <<"application/", "msword">>, <<"application/", "json">>,
      <<"application/", "vnd.ms-excel">>,
      <<"application/", "vnd.openxmlformats-officedocument.wordprocessingml.document">>,
      <<"application/", "vnd.openxmlformats-officedocument.spreadsheetml.sheet">> }

\* fileTypeToBucket(fileType), called as the handlers and the unit tests call it
CallFileTypeToBucket(r, fileType) ==
    /\ NoneDone
    /\ req[r].pc = "idle"
    /\ LET q == [Idle EXCEPT !.op = "fileTypeToBucket", !.fileType = fileType,
                             !.bucket = fileTypeToBucket(fileType)]
       IN  req' = [req EXCEPT ![r] =
               Respond(q, 0, IF fileTypeToBucketErr(fileType)
                             THEN "invalid fileType: must be portfolio-image, miniature-image, or document"
                             ELSE "")]
    /\ UNCHANGED <<objects, records, nextId, nextUuid, removed, partial>>

\* h.getBucketForFileType(fileType, contentType), called the same way
CallGetBucketForFileType(r, fileType, contentType) ==
    /\ NoneDone
    /\ req[r].pc = "idle"
    /\ LET q == [Idle EXCEPT !.op = "getBucketForFileType", !.fileType = fileType,
                             !.file = [NoFile EXCEPT !.ctype = contentType],
                             !.bucket = getBucketForFileType(fileType, contentType)]
       IN  req' = [req EXCEPT ![r] =
               Respond(q, 0, getBucketForFileTypeErr(fileType, contentType))]
    /\ UNCHANGED <<objects, records, nextId, nextUuid, removed, partial>>

---------------------------------------------------------------------------
\* the response reaches the client and the worker is free again
Finish(r) ==
    /\ req[r].pc = "done"
    /\ req' = [req EXCEPT ![r] = Idle]
    /\ UNCHANGED <<objects, records, nextId, nextUuid, removed, partial>>

Next ==
    \E r \in Req :
        \/ \E file \in FileInputs, fileType \in FileTypeInputs, openOk \in BOOLEAN :
               nextUuid <= MaxUploads /\ UploadFile(r, file, fileType, openOk)
        \/ \E ok \in BOOLEAN : UploadPut(r, ok)
        \/ \E ok \in BOOLEAN : UploadCreate(r, ok)
        \/ \E ok \in BOOLEAN : UploadCleanup(r, ok)
        \/ \E idStr \in IdInputs : DeleteFile(r, idStr)
        \/ \E ok \in BOOLEAN : DeleteLookup(r, ok)
        \/ \E ok \in BOOLEAN : DeleteObj(r, ok)
        \/ \E ok \in BOOLEAN : DeleteRec(r, ok)
        \/ \E fileType \in DownloadTypeInputs, param \in KeyParamInputs :
               DownloadFile(r, fileType, param)
        \/ \E ok \in BOOLEAN : DownloadLookup(r, ok)
        \/ \E ok \in BOOLEAN : DownloadGetObject(r, ok)
        \/ \E ok \in BOOLEAN, auditOk \in BOOLEAN : DownloadStat(r, ok, auditOk)
        \/ \E outcome \in CopyOutcomes : DownloadCopy(r, outcome)
        \/ Finish(r)

Spec == Init /\ [][Next]_vars

\* uploads alone, over every kind of request the checks of UploadFile tell apart
NextUpload ==
    \E r \in Req :
        \/ \E file \in AllFileInputs, fileType \in AllFileTypeInputs, openOk \in BOOLEAN :
               nextUuid <= MaxUploadsAlone /\ UploadFile(r, file, fileType, openOk)
        \/ \E ok \in BOOLEAN : UploadPut(r, ok)
        \/ \E ok \in BOOLEAN : UploadCreate(r, ok)
        \/ \E ok \in BOOLEAN : UploadCleanup(r, ok)
        \/ Finish(r)

SpecUpload == Init /\ [][NextUpload]_vars

\* files whose names carry the characters a header must not: quotes, a
\* semicolon, spaces, a line break and a second header; non-ASCII bytes; and
\* an escape sequence and the reserved characters
QuoteFile ==
    [PngFile EXCEPT !.name = <<"a", "\"", ";", " ", "b", "\r", "\n", "X", "-", "Evil", ":", " ",
                               "1", ".", "png">>]
AccentFile ==
    [PdfFile EXCEPT !.name = <<"r", "0xC3", "0xA9", "sum", "0xC3", "0xA9", "_", "v2", ".", "pdf">>]
PercentFile ==
    [PngFile EXCEPT !.name = <<"%", "2", "F", "$", "&", "+", ",", "-", "/", "=", "?", "@", "~",
                               ".", "png">>]

\* the files and categories of the lifecycle, with a file for each bucket
LifecycleFileInputs == {PngFile, PdfFile, QuoteFile, AccentFile, PercentFile}
LifecycleTypeInputs == {"portfolio-image", "miniature-image", "document"}

\* one client over healthy stores: a request starts when the response to the
\* one before it has arrived, and no store call reports an error
NextLifecycle ==
    \E r \in Req :
        /\ \A q \in Req \ {r} : req[q].pc = "idle"
        /\ \/ \E file \in LifecycleFileInputs, fileType \in LifecycleTypeInputs :
                  nextUuid <= MaxLifecycleUploads /\ UploadFile(r, file, fileType, TRUE)
           \/ UploadPut(r, TRUE)
           \/ UploadCreate(r, TRUE)
           \/ \E idStr \in IdInputs : DeleteFile(r, idStr)
           \/ DeleteLookup(r, TRUE)
           \/ DeleteObj(r, TRUE)
           \/ DeleteRec(r, TRUE)
           \/ \E fileType \in LifecycleTypeInputs, param \in KeyParamInputs :
                  DownloadFile(r, fileType, param)
           \/ DownloadLookup(r, TRUE)
           \/ DownloadGetObject(r, TRUE)
           \/ DownloadStat(r, TRUE, TRUE)
           \/ DownloadCopy(r, "ok")
           \/ Finish(r)

SpecLifecycle == Init /\ [][NextLifecycle]_vars

\* every request comes through the router
NextRoutes ==
    \E r \in Req :
        \/ \E route \in {PostFiles, DeleteFilesId}, auth \in AuthInputs :
               /\ route = PostFiles => nextUuid <= MaxRoutedUploads
               /\ Gate(r, route, auth)
        \/ \E auth \in PublicAuthInputs : Gate(r, GetFiles, auth)
        \/ \E file \in FileInputs, fileType \in FileTypeInputs, openOk \in BOOLEAN :
               /\ req[r].pc = "admitted" /\ req[r].route = PostFiles
               /\ nextUuid <= MaxRoutedUploads
               /\ UploadFile(r, file, fileType, openOk)
        \/ \E ok \in BOOLEAN : UploadPut(r, ok)
        \/ \E ok \in BOOLEAN : UploadCreate(r, ok)
        \/ \E ok \in BOOLEAN : UploadCleanup(r, ok)
        \/ \E idStr \in IdInputs :
               /\ req[r].pc = "admitted" /\ req[r].route = DeleteFilesId
               /\ DeleteFile(r, idStr)
        \/ \E ok \in BOOLEAN : DeleteLookup(r, ok)
        \/ \E ok \in BOOLEAN : DeleteObj(r, ok)
        \/ \E ok \in BOOLEAN : DeleteRec(r, ok)
        \/ \E fileType \in DownloadTypeInputs, param \in KeyParamInputs :
               /\ req[r].pc = "admitted" /\ req[r].route = GetFiles
               /\ DownloadFile(r, fileType, param)
        \/ \E ok \in BOOLEAN : DownloadLookup(r, ok)
        \/ \E ok \in BOOLEAN : DownloadGetObject(r, ok)
        \/ \E ok \in BOOLEAN, auditOk \in BOOLEAN : DownloadStat(r, ok, auditOk)
        \/ \E outcome \in CopyOutcomes : DownloadCopy(r, outcome)
        \/ Finish(r)

SpecRoutes == Init /\ [][NextRoutes]_vars

\* the classifier alone, over every category and content type tried
NextClassify ==
    \E r \in Req :
        \/ \E fileType \in ClassifyTypeInputs : CallFileTypeToBucket(r, fileType)
        \/ \E fileType \in ClassifyTypeInputs, contentType \in ContentTypeInputs :
               CallGetBucketForFileType(r, fileType, contentType)
        \/ Finish(r)

SpecClassify == Init /\ [][NextClassify]_vars

\* the characters that matter to a key: '.', '/', and a run of other characters
NameTokens == {".", "/", "a"}

\* every file name of up to MaxNameLen of them, and two longer hostile names
HostileNames ==
    { <<".", ".", "/", ".", ".", "/", "etc", "/", "passwd">>,
      <<".", ".", "/", "cv", ".", "pdf">> }
NameInputs == (UNION {[1..k -> NameTokens] : k \in 0..MaxNameLen}) \cup HostileNames

NamedFileInputs == {[PdfFile EXCEPT !.name = n] : n \in NameInputs}

\* one client uploading documents under every file name
NextNames ==
    \E r \in Req :
        /\ \A q \in Req \ {r} : req[q].pc = "idle"
        /\ \/ \E file \in NamedFileInputs :
                  nextUuid <= MaxNamedUploads /\ UploadFile(r, file, "document", TRUE)
           \/ \E ok \in BOOLEAN : UploadPut(r, ok)
           \/ \E ok \in BOOLEAN : UploadCreate(r, ok)
           \/ \E ok \in BOOLEAN : UploadCleanup(r, ok)
           \/ Finish(r)

SpecNames == Init /\ [][NextNames]_vars

\* storage.files is a table of a shared database: the values another writer
\* (a migration, an earlier release, an operator) leaves in a row's
\* file_type, file_size and mime_type columns
DriftFileTypes == {"portfolio-image", "legacy-image"}
DriftSizes == {1024, 512}
DriftMimeTypes == { <<"image/", "png">>, <<"image/", "jpeg">> }

\* another writer updates the columns of row f; id, bucket and key stay
RowRewritten(f, fileType, size, mimeType) ==
    /\ NoneDone
    /\ f \in records
    /\ <<fileType, size, mimeType>> # <<f.fileType, f.size, f.mimeType>>
    /\ records' = (records \ {f}) \cup
           {[f EXCEPT !.fileType = fileType, !.size = size, !.mimeType = mimeType]}
    /\ UNCHANGED <<objects, nextId, nextUuid, req, removed, partial>>

\* one client uploading, downloading and deleting images on healthy stores
\* while rows are rewritten behind the handlers
NextDrift ==
    \/ \E f \in records, fileType \in DriftFileTypes, size \in DriftSizes,
          mimeType \in DriftMimeTypes : RowRewritten(f, fileType, size, mimeType)
    \/ \E r \in Req :
           /\ \A q \in Req \ {r} : req[q].pc = "idle"
           /\ \/ nextUuid <= MaxDriftUploads /\ UploadFile(r, PngFile, "portfolio-image", TRUE)
              \/ UploadPut(r, TRUE)
              \/ UploadCreate(r, TRUE)
              \/ \E idStr \in IdInputs : DeleteFile(r, idStr)
              \/ DeleteLookup(r, TRUE)
              \/ DeleteObj(r, TRUE)
              \/ DeleteRec(r, TRUE)
              \/ \E param \in KeyParamInputs : DownloadFile(r, "portfolio-image", param)
              \/ DownloadLookup(r, TRUE)
              \/ DownloadGetObject(r, TRUE)
              \/ DownloadStat(r, TRUE, TRUE)
              \/ DownloadCopy(r, "ok")
              \/ Finish(r)

SpecDrift == Init /\ [][NextDrift]_vars

\* the process dies: every request in flight ends where it stands, with no
\* response and no further store call
Crash ==
    /\ \E r \in Req : req[r].pc # "idle"
    /\ req' = [r \in Req |-> Idle]
    /\ UNCHANGED <<objects, records, nextId, nextUuid, removed, partial>>

\* two workers serving uploads and deletes whose store calls may fail, and
\* downloads, with process deaths in between
NextCrash ==
    \/ Crash
    \/ \E r \in Req :
           \/ nextUuid <= MaxCrashUploads /\ UploadFile(r, PngFile, "portfolio-image", TRUE)
           \/ \E ok \in BOOLEAN : UploadPut(r, ok)
           \/ \E ok \in BOOLEAN : UploadCreate(r, ok)
           \/ \E ok \in BOOLEAN : UploadCleanup(r, ok)
           \/ \E idStr \in IdInputs : DeleteFile(r, idStr)
           \/ \E ok \in BOOLEAN : DeleteLookup(r, ok)
           \/ \E ok \in BOOLEAN : DeleteObj(r, ok)
           \/ \E ok \in BOOLEAN : DeleteRec(r, ok)
           \/ \E param \in KeyParamInputs : DownloadFile(r, "portfolio-image", param)
           \/ DownloadLookup(r, TRUE)
           \/ DownloadGetObject(r, TRUE)
           \/ DownloadStat(r, TRUE, TRUE)
           \/ DownloadCopy(r, "ok")
           \/ Finish(r)

SpecCrash == Init /\ [][NextCrash]_vars

\* two workers on healthy stores: uploads, and deletes that race each other
NextDeletes ==
    \E r \in Req :
        \/ \E fileType \in FileTypeInputs :
               nextUuid <= MaxRacedUploads /\ UploadFile(r, PngFile, fileType, TRUE)
        \/ UploadPut(r, TRUE)
        \/ UploadCreate(r, TRUE)
        \/ \E idStr \in IdInputs : DeleteFile(r, idStr)
        \/ DeleteLookup(r, TRUE)
        \/ DeleteObj(r, TRUE)
        \/ DeleteRec(r, TRUE)
        \/ Finish(r)

SpecDeletes == Init /\ [][NextDeletes]_vars

---------------------------------------------------------------------------
(* The token-validating middleware of internal/middleware *)

\* strings.Split: the parts of s between the occurrences of sep
RECURSIVE Split(_, _)
Split(s, sep) ==
    IF \A i \in 1..Len(s) : s[i] # sep
    THEN <<s>>
    ELSE LET i == CHOOSE k \in 1..Len(s) :
                      s[k] = sep /\ \A j \in 1..(k - 1) : s[j] # sep
         IN  <<SubSeq(s, 1, i - 1)>> \o Split(SubSeq(s, i + 1, Len(s)), sep)

\* extractToken: the second of exactly two space-separated parts whose first
\* is "Bearer", else the empty string
extractToken(header) ==
    LET parts == Split(header, " ")
    IN  IF Len(parts) = 2 /\ parts[1] = <<"Bearer">> THEN parts[2] ELSE <<>>

\* json.Unmarshal into map[string]bool fails on a body that is not a JSON
\* object and on a field whose value is not a boolean
UnmarshalErr(reply) ==
    ~reply.json \/ \E f \in reply.fields : f[2] \notin {"true", "false"}

\* the validation that trusts the body of any reply
validateWithAuthServiceAnyStatus(token, reply) ==
    IF reply.err THEN [valid |-> FALSE, err |-> TRUE]
    ELSE IF UnmarshalErr(reply) THEN [valid |-> FALSE, err |-> TRUE]
    ELSE [valid |-> <<"valid", "true">> \in reply.fields, err |-> FALSE]

\* validateWithAuthService: POST {token} to /auth/validate; reply is what came
\* back, err a failure to build or send the request
validateWithAuthService(token, reply) ==
    IF reply.err THEN [valid |-> FALSE, err |-> TRUE]
    ELSE IF reply.status # 200 THEN [valid |-> FALSE, err |-> FALSE]
    ELSE IF UnmarshalErr(reply) THEN [valid |-> FALSE, err |-> TRUE]
    ELSE [valid |-> <<"valid", "true">> \in reply.fields, err |-> FALSE]

\* AuthMiddleware.ValidateToken in front of a protected route: 401 and Abort
\* without a token or without a valid answer, else c.Next()
AuthMiddlewareValidateToken(r, route, header, reply) ==
    /\ NoneDone
    /\ req[r].pc = "idle"
    /\ LET token == extractToken(header)
           q == [Idle EXCEPT !.op = "gate", !.route = route, !.header = header]
           asked == [q EXCEPT !.reply = reply]
           res == validateWithAuthService(token, reply)
       IN  req' = [req EXCEPT ![r] =
               IF token = <<>>
               THEN Respond(q, 401, "authorization header required")
               ELSE IF res.err \/ ~res.valid
               THEN Respond(asked, 401, "invalid or expired token")
               ELSE [asked EXCEPT !.pc = "admitted"]]
    /\ UNCHANGED <<objects, records, nextId, nextUuid, removed, partial>>

\* the Authorization headers tried: none, other schemes and spellings, a
\* scheme without a token, and tokens with stray spaces
HeaderInputs ==
    { NoHeader,
      <<"Bearer">>,
      <<"Bearer", " ">>,
      <<"Bearer", " ", "t1">>,
      <<"Bearer", " ", "t2">>,
      <<"Basic", " ", "t1">>,
      <<"bearer", " ", "t1">>,
      <<"Bearer", " ", " ", "t1">>,
      <<"Bearer", " ", "t1", " ">>,
      <<"t1">> }

Reply(status, fields) == [err |-> FALSE, status |-> status, json |-> TRUE, fields |-> fields]

\* what the auth service may answer: no answer at all, 200 with each shape of
\* body, and other statuses, one of them with a body that says valid
ReplyInputs ==
    { [NoReply EXCEPT !.err = TRUE],
      Reply(200, {<<"valid", "true">>}),
      Reply(200, {<<"valid", "false">>}),
      Reply(200, {}),
      Reply(200, {<<"valid", "true">>, <<"user", "u1">>}),
      [Reply(200, {}) EXCEPT !.json = FALSE],
      Reply(401, {<<"valid", "false">>}),
      Reply(500, {<<"valid", "true">>}) }

\* the protected routes behind the middleware, on healthy stores
NextAuth ==
    \E r \in Req :
        \/ \E route \in {PostFiles, DeleteFilesId}, header \in HeaderInputs,
                reply \in ReplyInputs :
               /\ route = PostFiles => nextUuid <= MaxAuthUploads
               /\ AuthMiddlewareValidateToken(r, route, header, reply)
        \/ /\ req[r].pc = "admitted" /\ req[r].route = PostFiles
           /\ nextUuid <= MaxAuthUploads
           /\ UploadFile(r, PngFile, "portfolio-image", TRUE)
        \/ UploadPut(r, TRUE)
        \/ UploadCreate(r, TRUE)
        \/ \E idStr \in IdInputs :
               /\ req[r].pc = "admitted" /\ req[r].route = DeleteFilesId
               /\ DeleteFile(r, idStr)
        \/ DeleteLookup(r, TRUE)
        \/ DeleteObj(r, TRUE)
        \/ DeleteRec(r, TRUE)
        \/ Finish(r)

SpecAuth == Init /\ [][NextAuth]_vars

\* the *key parameters of every shape: the key of a row as gin hands it over,
\* without its '/', under further leading slashes, under a directory, behind
\* '..' segments, with a trailing '/', and parameters that name no row
HostileParams ==
    LET keys == {f.key : f \in records \cup removed}
    IN  KeyParamInputs
        \cup keys
        \cup {<<"/", "/">> \o k : k \in keys}
        \cup {<<"/", "/", "/">> \o k : k \in keys}
        \cup {<<"/", "a", "/">> \o k : k \in keys}
        \cup {<<"/", "..", "/">> \o k : k \in keys}
        \cup {<<"/", "a", "/", "..", "/">> \o k : k \in keys}
        \cup {<<"/">> \o k \o <<"/">> : k \in keys}
        \cup { <<>>, <<"/">>, <<"/", "/">>, <<"/", "/", "..", "/", "etc", "/", "passwd">>,
               <<"..", "/", "..", "/", "etc", "/", "passwd">> }

\* one client uploading an image and asking for keys of every shape
NextParams ==
    \E r \in Req :
        /\ \A q \in Req \ {r} : req[q].pc = "idle"
        /\ \/ nextUuid <= MaxParamUploads /\ UploadFile(r, PngFile, "portfolio-image", TRUE)
           \/ UploadPut(r, TRUE)
           \/ UploadCreate(r, TRUE)
           \/ \E fileType \in DownloadTypeInputs, param \in HostileParams :
                  DownloadFile(r, fileType, param)
           \/ \E ok \in BOOLEAN : DownloadLookup(r, ok)
           \/ \E ok \in BOOLEAN : DownloadGetObject(r, ok)
           \/ \E ok, auditOk \in BOOLEAN : DownloadStat(r, ok, auditOk)
           \/ \E outcome \in CopyOutcomes : DownloadCopy(r, outcome)
           \/ Finish(r)

SpecParams == Init /\ [][NextParams]_vars

---------------------------------------------------------------------------
(* Properties of UploadFile *)

Done(r, op) == req[r].op = op /\ req[r].pc = "done"

\* the calls named `name` that worker r's request made with result res
CallsWith(r, name, res) == {i \in CallsOf(r, name) : req[r].calls[i].res = res}

SameTarget(c, d) == c.bucket = d.bucket /\ c.key = d.key

\* C1: an upload whose PutObject succeeded and whose CreateFile failed issued
\* exactly one DeleteObject, on the (bucket, key) PutObject received, and
\* answers 500 "failed to create file record" whatever that delete returned
C1_CreateFailureCleansUp ==
    \A r \in Req :
        (Done(r, "upload") /\ CallsWith(r, "PutObject", "ok") # {}
                           /\ CallsWith(r, "CreateFile", "fail") # {})
        => /\ Cardinality(CallsOf(r, "DeleteObject")) = 1
           /\ \A p \in CallsOf(r, "PutObject"), d \in CallsOf(r, "DeleteObject") :
                  p < d /\ SameTarget(req[r].calls[p], req[r].calls[d])
           /\ req[r].status = 500
           /\ req[r].msg = "failed to create file record"

C1_Witness ==
    \E r \in Req :
        /\ Done(r, "upload")
        /\ CallsWith(r, "PutObject", "ok") # {}
        /\ CallsWith(r, "CreateFile", "fail") # {}
        /\ CallsWith(r, "DeleteObject", "fail") # {}
        /\ HasObject(req[r].bucket, req[r].key)

\* C2: an upload whose PutObject failed answers 500 "failed to upload file",
\* never called CreateFile, and left no row for its key
C2_PutFailureLeavesNoRecord ==
    \A r \in Req :
        (Done(r, "upload") /\ CallsWith(r, "PutObject", "fail") # {})
        => /\ req[r].status = 500
           /\ req[r].msg = "failed to upload file"
           /\ CallsOf(r, "CreateFile") = {}
           /\ \A f \in records : f.key # req[r].key

C2_Witness ==
    \E r \in Req :
        /\ Done(r, "upload")
        /\ CallsWith(r, "PutObject", "fail") # {}
        /\ req[r].status = 500

\* C3: an upload that answers 200 made exactly one PutObject and exactly one
\* CreateFile, both on the same (bucket, key), and no DeleteObject
C3_SuccessWritesOnceEach ==
    \A r \in Req :
        (Done(r, "upload") /\ req[r].status = 200)
        => /\ Cardinality(CallsOf(r, "PutObject")) = 1
           /\ Cardinality(CallsOf(r, "CreateFile")) = 1
           /\ \A p \in CallsOf(r, "PutObject"), c \in CallsOf(r, "CreateFile") :
                  SameTarget(req[r].calls[p], req[r].calls[c])
           /\ CallsOf(r, "DeleteObject") = {}

C3_Witness ==
    \E r \in Req :
        /\ Done(r, "upload")
        /\ req[r].status = 200
        /\ req[r].rec \in records
        /\ HasObject(req[r].bucket, req[r].key)

---------------------------------------------------------------------------
(* Properties of DeleteFile *)

LastCall(q) == q.calls[Len(q.calls)]

\* C4: when DeleteFile's DeleteObject fails, that step ends the request with
\* 500 "failed to delete file from storage", the request has made no metadata
\* DeleteFile call, and the rows are as they were
C4_ObjectDeleteFailureKeepsRecord ==
    [][\A r \in Req :
          (/\ req[r].op = "delete" /\ req[r].pc = "delobj"
           /\ req'[r] # req[r]
           /\ LastCall(req'[r]).call = "DeleteObject"
           /\ LastCall(req'[r]).res = "fail")
          => /\ req'[r].pc = "done"
             /\ req'[r].status = 500
             /\ req'[r].msg = "failed to delete file from storage"
             /\ \A i \in 1..Len(req'[r].calls) : req'[r].calls[i].call # "DeleteFile"
             /\ records' = records
      ]_vars

C4_Witness ==
    \E r \in Req :
        /\ Done(r, "delete")
        /\ CallsWith(r, "DeleteObject", "fail") # {}
        /\ CallsOf(r, "DeleteFile") = {}
        /\ req[r].status = 500
        /\ req[r].rec \in records

\* C5: a metadata DeleteFile call comes after a successful DeleteObject of
\* the same request on the row's object; when it fails the request answers
\* 500 "failed to delete file record" and the row's object is gone
C5_RecordDeleteAfterObjectDelete ==
    \A r \in Req :
        req[r].op = "delete"
        => /\ \A i \in CallsOf(r, "DeleteFile") :
                  /\ req[r].calls[i].id = req[r].rec.id
                  /\ \E j \in CallsWith(r, "DeleteObject", "ok") :
                         /\ j < i
                         /\ req[r].calls[j].bucket = req[r].rec.bucket
                         /\ req[r].calls[j].key = req[r].rec.key
           /\ (req[r].pc = "done" /\ CallsWith(r, "DeleteFile", "fail") # {})
              => /\ req[r].status = 500
                 /\ req[r].msg = "failed to delete file record"
                 /\ ~HasObject(req[r].rec.bucket, req[r].rec.key)

C5_Witness ==
    \E r \in Req :
        /\ Done(r, "delete")
        /\ CallsWith(r, "DeleteObject", "ok") # {}
        /\ CallsWith(r, "DeleteFile", "fail") # {}
        /\ req[r].rec \in records

\* C6: a row that DeleteFile removed has no object left at its (bucket, key)
C6_NoRowRemovedBeforeItsObject ==
    \A f \in removed : ~HasObject(f.bucket, f.key)

C6_Witness ==
    \E f \in removed : f \notin records /\ ~HasObject(f.bucket, f.key)

\* C7: a row whose (bucket, key) has no object is inside a delete window: a
\* DeleteFile of that row has issued its object delete and not yet its
\* metadata delete, or its metadata delete has failed
InDeleteWindow(f) ==
    \/ f.id \in partial
    \/ \E r \in Req : req[r].op = "delete" /\ req[r].pc = "delrec" /\ req[r].rec = f

C7_RecordWithoutObjectOnlyInDeleteWindow ==
    \A f \in records : ~HasObject(f.bucket, f.key) => InDeleteWindow(f)

C7_Witness ==
    /\ \E f \in records : ~HasObject(f.bucket, f.key) /\ f.id \in partial
    /\ \E r \in Req : req[r].op = "upload" /\ req[r].pc = "create"

\* C9: a DeleteFile that looks up a row whose earlier delete failed at the
\* metadata delete, with no store error of its own, finds the row, has its
\* DeleteObject succeed on the missing object, removes the row and answers 200
C9_DeleteRetrySucceeds ==
    \A r \in Req :
        (/\ Done(r, "delete") /\ req[r].retry /\ req[r].faults = 0
         /\ \E i \in CallsOf(r, "GetFileByID") : req[r].calls[i].present)
        => /\ CallsWith(r, "GetFileByID", "ok") # {}
           /\ \E i \in CallsWith(r, "DeleteObject", "ok") : ~req[r].calls[i].present
           /\ CallsWith(r, "DeleteFile", "ok") # {}
           /\ RecordsById(req[r].id) = {}
           /\ ~HasObject(req[r].rec.bucket, req[r].rec.key)
           /\ req[r].status = 200

C9_Witness ==
    \E r \in Req :
        /\ Done(r, "delete") /\ req[r].retry /\ req[r].faults = 0
        /\ req[r].status = 200
        /\ req[r].rec \in removed
        /\ \A q \in Req \ {r} : req[q].pc = "idle"

---------------------------------------------------------------------------
(* Properties of DownloadFile *)

\* C8 as claimed: a download that found its row and then found the object
\* missing, at GetObject or at Stat, answers 404
C8_MissingObjectIs404 ==
    \A r \in Req :
        (/\ Done(r, "download")
         /\ CallsWith(r, "GetFileByKey", "ok") # {}
         /\ \E i \in CallsOf(r, "GetObject") \cup CallsOf(r, "Stat") :
                req[r].calls[i].res = "notfound")
        => req[r].status = 404

---------------------------------------------------------------------------
(* Validation in UploadFile *)

\* the content types a document may have
DocumentFamilies ==
    { <<"application/", "pdf">>, <<"application/", "msword">>,
      <<"application/", "vnd.openxmlformats-officedocument.wordprocessingml.document">> }

\* the requests the checks of UploadFile turn away, as the interface lists them
RejectedByValidation(file, fileType) ==
    \/ ~file.has
    \/ fileType = ""
    \/ file.size > MaxFileSize
    \/ ~isAllowedContentType(file.ctype)
    \/ fileType \notin {"portfolio-image", "miniature-image", "document"}
    \/ fileType \in {"portfolio-image", "miniature-image"} /\ ~HasPrefix(file.ctype, <<"image/">>)
    \/ /\ fileType = "document"
       /\ \A family \in DocumentFamilies : ~HasPrefix(file.ctype, family)

\* C10: an upload that validation turns away (and whose file opened) answers
\* 400 in the step that starts it, with no store call made and both stores
\* as they were
C10_RejectedUploadTouchesNoStore ==
    [][\A r \in Req :
          (/\ req[r].pc = "idle" /\ req'[r].op = "upload"
           /\ RejectedByValidation(req'[r].file, req'[r].fileType)
           /\ req'[r].faults = 0)
          => /\ req'[r].pc = "done"
             /\ req'[r].status = 400
             /\ req'[r].calls = <<>>
             /\ objects' = objects
             /\ records' = records
      ]_vars

C10_Witness ==
    \E r \in Req :
        /\ Done(r, "upload")
        /\ req[r].file = BigFile /\ req[r].fileType = "portfolio-image"
        /\ req[r].status = 400
        /\ req[r].calls = <<>>
        /\ objects # {}

---------------------------------------------------------------------------
(* The lifecycle of a file *)

\* the rows of `rows` that a download of worker r's category and key asks for
RowsAsked(r, rows) ==
    {f \in rows : f.fileType = req[r].fileType /\ f.key = req[r].key}

\* C11: with healthy stores and one request at a time, a download of the
\* category and key of an uploaded file answers 200 with the whole stored
\* object under its stored content type; once a DeleteFile of the file's id
\* has answered 200, a download of that category and key answers 404
C11_LifecycleDownloads ==
    \A r \in Req :
        Done(r, "download")
        => /\ \A f \in RowsAsked(r, records \ removed) :
                  /\ req[r].status = 200
                  /\ req[r].sent = f.size
                  /\ req[r].headers.length = f.size
                  /\ req[r].headers.ctype = f.mimeType
           /\ \A f \in RowsAsked(r, removed) : req[r].status = 404

C11_Witness ==
    \E r \in Req :
        /\ Done(r, "download")
        /\ req[r].status = 404
        /\ RowsAsked(r, removed) # {}
        /\ \E f \in records : HasObject(f.bucket, f.key)

---------------------------------------------------------------------------
(* Keys *)

\* the key has no '/' and no '..'
NoTraversal(key) ==
    /\ \A i \in 1..Len(key) : key[i] # "/"
    /\ \A i \in 1..(Len(key) - 1) : ~(key[i] = "." /\ key[i + 1] = ".")

\* C12: whatever the client's file name, the key UploadFile hands to PutObject
\* and to CreateFile has no '/' and no '..' in it
C12_KeysHaveNoTraversal ==
    \A r \in Req :
        \A i \in CallsOf(r, "PutObject") \cup CallsOf(r, "CreateFile") :
            NoTraversal(req[r].calls[i].key)

C12_Witness ==
    \E r \in Req :
        /\ Done(r, "upload") /\ req[r].status = 200
        /\ req[r].file.name = <<".", ".", "/", "cv", ".", "pdf">>
        /\ req[r].rec.key = <<"u1", ".", "pdf">>
        /\ req[r].rec.fileName = req[r].file.name
        /\ CallsOf(r, "PutObject") # {} /\ CallsOf(r, "CreateFile") # {}

---------------------------------------------------------------------------
(* The Content-Disposition header *)

HexDigitVal(h) == (CHOOSE d \in 1..16 : UpperHex[d] = h) - 1
CharOfByte(b) == (CHOOSE p \in SpecialBytes : p[2] = b)[1]

\* the string that a percent-encoded string stands for
RECURSIVE PercentDecode(_)
PercentDecode(str) ==
    IF str = <<>> THEN <<>>
    ELSE IF Head(str) = "%"
    THEN <<CharOfByte(16 * HexDigitVal(str[2]) + HexDigitVal(str[3]))>>
             \o PercentDecode(SubSeq(str, 4, Len(str)))
    ELSE <<Head(str)>> \o PercentDecode(Tail(str))

\* the characters that end, split or extend a header value, and non-ASCII bytes
HeaderBreakers == {"\r", "\n", "\"", ";", " ", "0xC3", "0xA9"}

\* C13: the Content-Disposition header of a download is
\* "attachment; filename*=UTF-8''" followed by a percent-encoding of the stored
\* display name that has no CR, LF, double quote, semicolon, space or
\* non-ASCII byte in it
C13_DispositionIsEncodedName ==
    \A r \in Req :
        (req[r].op = "download" /\ req[r].headers # NoHeaders)
        => LET value == req[r].headers.disposition
               encoded == Tail(value)
           IN  /\ Head(value) = "attachment; filename*=UTF-8''"
               /\ PercentDecode(encoded) = req[r].rec.fileName
               /\ \A i \in 1..Len(encoded) : encoded[i] \notin HeaderBreakers

C13_Witness ==
    \E r \in Req :
        /\ Done(r, "download") /\ req[r].status = 200
        /\ req[r].rec.fileName = QuoteFile.name
        /\ req[r].headers.disposition =
               <<"attachment; filename*=UTF-8''", "a", "%", "2", "2", "%", "3", "B", "%", "2", "0",
                 "b", "%", "0", "D", "%", "0", "A", "X", "-", "Evil", ":", "%", "2", "0", "1", ".", "png">>

---------------------------------------------------------------------------
(* The classifier *)

\* the bucket the configuration gives each category
BucketOfCategory ==
    [c \in {"portfolio-image", "miniature-image", "document"} |->
        IF c = "portfolio-image" THEN "images"
        ELSE IF c = "miniature-image" THEN "miniatures" ELSE "documents"]

\* C14: fileTypeToBucket answers for every string: the three categories give
\* their configured buckets and no error, every other string (the empty one
\* too) gives the 'invalid fileType' error and no bucket
C14_FileTypeToBucketIsTotal ==
    \A r \in Req :
        Done(r, "fileTypeToBucket")
        => IF req[r].fileType \in DOMAIN BucketOfCategory
           THEN req[r].bucket = BucketOfCategory[req[r].fileType] /\ req[r].msg = ""
           ELSE /\ req[r].bucket = NoBucket
                /\ req[r].msg =
                       "invalid fileType: must be portfolio-image, miniature-image, or document"

C14_Witness ==
    \E r \in Req :
        /\ Done(r, "fileTypeToBucket")
        /\ req[r].fileType = "" /\ req[r].bucket = NoBucket /\ req[r].msg # ""

\* C15: getBucketForFileType succeeds for the two image categories exactly
\* when the content type starts with 'image/', and for 'document' exactly when
\* it starts with one of the three document types; when it succeeds it
\* returns the category's bucket, otherwise an error and no bucket
C15_CategoryAcceptsItsFamilies ==
    \A r \in Req :
        Done(r, "getBucketForFileType")
        => LET fileType == req[r].fileType
               contentType == req[r].file.ctype
               accepted ==
                   \/ /\ fileType \in {"portfolio-image", "miniature-image"}
                      /\ HasPrefix(contentType, <<"image/">>)
                   \/ /\ fileType = "document"
                      /\ \E family \in DocumentFamilies : HasPrefix(contentType, family)
           IN  IF accepted
               THEN req[r].msg = "" /\ req[r].bucket = BucketOfCategory[fileType]
               ELSE req[r].msg # "" /\ req[r].bucket = NoBucket

C15_Witness ==
    \E r \in Req :
        /\ Done(r, "getBucketForFileType")
        /\ req[r].fileType = "document"
        /\ req[r].file.ctype = <<"application/", "pdf", "; charset=binary">>
        /\ req[r].bucket = DocumentsBucket /\ req[r].msg = ""

---------------------------------------------------------------------------
(* The lookups of DownloadFile and DeleteFile *)

\* the calls worker r's request made on the object store
ObjectStoreCalls(r) ==
    {i \in 1..Len(req[r].calls) :
        req[r].calls[i].call \in {"GetObject", "Stat", "Read", "PutObject", "DeleteObject"}}

\* C16: a download of an unknown category answers 400 without any store
\* call; one whose GetFileByKey finds no row answers 404; one whose
\* GetFileByKey fails otherwise answers 500; none of them reaches the object
\* store
C16_DownloadLookupStatuses ==
    \A r \in Req :
        Done(r, "download")
        => /\ req[r].fileType \notin {"portfolio-image", "miniature-image", "document"}
              => req[r].status = 400 /\ req[r].calls = <<>>
           /\ CallsWith(r, "GetFileByKey", "notfound") # {}
              => req[r].status = 404 /\ ObjectStoreCalls(r) = {}
           /\ CallsWith(r, "GetFileByKey", "fail") # {}
              => req[r].status = 500 /\ ObjectStoreCalls(r) = {}

C16_Witness ==
    \E r \in Req :
        /\ Done(r, "download")
        /\ \E i \in CallsWith(r, "GetFileByKey", "fail") : req[r].calls[i].present
        /\ req[r].status = 500
        /\ HasObject(req[r].bucket, req[r].key)

\* the ids of a path that are decimal numbers
DecimalIds == {<<DigitChars[d]>> : d \in 1..10}

\* C17: a DeleteFile of an id that is no decimal number answers 400 without
\* any store call; one whose GetFileByID finds no row answers 404; one whose
\* GetFileByID fails otherwise answers 500; none of them calls DeleteObject or
\* the metadata DeleteFile
C17_DeleteLookupStatuses ==
    \A r \in Req :
        Done(r, "delete")
        => /\ req[r].param \notin DecimalIds
              => req[r].status = 400 /\ req[r].calls = <<>>
           /\ CallsWith(r, "GetFileByID", "notfound") # {}
              => /\ req[r].status = 404
                 /\ CallsOf(r, "DeleteObject") \cup CallsOf(r, "DeleteFile") = {}
           /\ CallsWith(r, "GetFileByID", "fail") # {}
              => /\ req[r].status = 500
                 /\ CallsOf(r, "DeleteObject") \cup CallsOf(r, "DeleteFile") = {}

C17_Witness ==
    \E r \in Req :
        /\ Done(r, "delete")
        /\ \E i \in CallsWith(r, "GetFileByID", "fail") : req[r].calls[i].present
        /\ req[r].status = 500
        /\ req[r].msg = "failed to fetch file"
        /\ \E f \in RecordsById(req[r].id) : HasObject(f.bucket, f.key)

---------------------------------------------------------------------------
(* The permission gate *)

\* the request has scopes in its context when RequirePermission looks
HasScopes(q) == q.auth.token = "valid" /\ q.auth.present

\* the level the request's scopes name for the files resource
FilesLevel(q) ==
    IF \E p \in q.auth.levels : p[1] = "files"
    THEN (CHOOSE p \in q.auth.levels : p[1] = "files")[2]
    ELSE "none"

\* the levels that open each protected route
Sufficient ==
    [route \in {PostFiles, DeleteFilesId} |->
        IF route = PostFiles THEN {"edit", "delete"} ELSE {"delete"}]

\* the middleware answered and the handler never ran
Rejected(q, status) ==
    q.op = "gate" /\ q.pc = "done" /\ q.status = status /\ q.calls = <<>>

\* C18: on POST /files and DELETE /files/:id a request without scopes in its
\* context is answered 401 and one whose scopes lack the level 403, in the
\* step it arrives, with no store call and both stores as they were; the
\* handlers of those routes run only for requests whose scopes have the
\* level; the download route never answers from the gate
C18_ProtectedRoutesAreGated ==
    [][\A r \in Req :
          LET q == req'[r]
          IN  /\ (req[r].pc = "idle" /\ q.pc # "idle" /\ q.route \in DOMAIN Sufficient)
                 => /\ ~HasScopes(q)
                       => Rejected(q, 401) /\ objects' = objects /\ records' = records
                    /\ (HasScopes(q) /\ q.auth.wellFormed
                           /\ FilesLevel(q) \notin Sufficient[q.route])
                       => Rejected(q, 403) /\ objects' = objects /\ records' = records
              /\ q.op \in {"upload", "delete"}
                 => /\ q.route = IF q.op = "upload" THEN PostFiles ELSE DeleteFilesId
                    /\ HasScopes(q) /\ q.auth.wellFormed
                    /\ FilesLevel(q) \in Sufficient[q.route]
              /\ (q.route = GetFiles /\ q.pc = "done") => q.op = "download"
      ]_vars

C18_Witness ==
    \E r, d \in Req :
        /\ Rejected(req[r], 401) /\ req[r].route = DeleteFilesId /\ req[r].auth = NoAuth
        /\ req[d].op = "download" /\ req[d].pc = "copy" /\ req[d].auth = NoAuth
        /\ HasObject(req[d].bucket, req[d].key)

\* the permission levels, lowest first, and the level each route asks for
LevelOrder == <<"none", "read", "edit", "delete">>
LevelPosition(level) == CHOOSE i \in 1..Len(LevelOrder) : LevelOrder[i] = level
LevelAsked == [route \in {PostFiles, DeleteFilesId} |->
                  IF route = PostFiles THEN "edit" ELSE "delete"]

\* C19: with none < read < edit < delete, a request with scopes passes the
\* gate of POST /files exactly when its files level is edit or higher and
\* the gate of DELETE /files/:id exactly when it is delete; otherwise it is
\* answered 403
C19_LevelsDecideAccess ==
    \A r \in Req :
        (/\ req[r].route \in DOMAIN LevelAsked
         /\ HasScopes(req[r]) /\ req[r].auth.wellFormed)
        => LET passed == req[r].op # "gate" \/ req[r].pc = "admitted"
           IN  /\ passed <=> LevelPosition(FilesLevel(req[r]))
                                 >= LevelPosition(LevelAsked[req[r].route])
               /\ ~passed => Rejected(req[r], 403)

C19_Witness ==
    \E u, d \in Req :
        /\ req[u].op = "upload" /\ req[u].pc = "create" /\ FilesLevel(req[u]) = "edit"
        /\ Rejected(req[d], 403) /\ req[d].route = DeleteFilesId
        /\ FilesLevel(req[d]) = "edit"

---------------------------------------------------------------------------
(* A delete racing a download *)

\* a DeleteFile of the row that worker r's download found ran while the
\* download did: it is past its lookup now, or it has removed the row since
DeleteRanAlongside(r) ==
    \/ req[r].rec \in removed
    \/ \E d \in Req : /\ req[d].op = "delete" /\ req[d].pc \in {"delobj", "delrec"}
                       /\ req[d].rec = req[r].rec /\ req[d].faults = 0

\* C20 as claimed: a download that found its row while a DeleteFile of that
\* row ran alongside, with no store reporting an error, ends 200 or 404
C20_RacingDownloadIs200Or404 ==
    \A r \in Req :
        (/\ Done(r, "download")
         /\ CallsWith(r, "GetFileByKey", "ok") # {}
         /\ req[r].faults = 0
         /\ req[r].id \notin partial
         /\ DeleteRanAlongside(r))
        => req[r].status \in {200, 404}

---------------------------------------------------------------------------
(* Keys of concurrent and successive uploads *)

\* the uploads that hold a key: they are past the form checks
Keyed == {r \in Req : req[r].op = "upload" /\ req[r].key # NoKey}

\* C21: no two uploads hand PutObject the same key: two uploads in flight
\* hold different keys, a PutObject never found an object under its key,
\* every row under an upload's key is the row that upload created, and a
\* compensating DeleteObject addressed the key of its own PutObject
C21_UploadKeysAreDistinct ==
    \A r \in Keyed :
        /\ \A q \in Keyed \ {r} : req[q].key # req[r].key
        /\ \A i \in CallsOf(r, "PutObject") :
               /\ ~req[r].calls[i].present
               /\ req[r].calls[i].key = req[r].key
        /\ \A f \in records \cup removed : f.key = req[r].key => f = req[r].rec
        /\ \A i \in CallsOf(r, "DeleteObject") :
               \A j \in CallsOf(r, "PutObject") : SameTarget(req[r].calls[i], req[r].calls[j])

\* two uploads of the same file name ran side by side and both stored an object
C21_Witness ==
    \E r, q \in Req :
        /\ r # q
        /\ req[r].op = "upload" /\ req[q].op = "upload"
        /\ req[r].file.name = req[q].file.name
        /\ req[r].fileType = req[q].fileType
        /\ CallsWith(r, "PutObject", "ok") # {}
        /\ CallsWith(q, "PutObject", "ok") # {}
        /\ CallsOf(q, "DeleteObject") # {}
        /\ Cardinality(objects) = 1

---------------------------------------------------------------------------
(* No handler retries a store call *)

StoreCalls ==
    {"PutObject", "CreateFile", "GetFileByKey", "GetFileByID", "GetObject",
     "DeleteFile", "DeleteObject"}

\* the store calls of request q that returned an error
FailedCalls(q) ==
    {i \in 1..Len(q.calls) : q.calls[i].call \in StoreCalls /\ q.calls[i].res # "ok"}

\* C22: a request makes each store call at most once, and a store call that
\* fails is the last call of the request, the one compensating DeleteObject
\* after a failed CreateFile apart; the request then answers an error status
C22_NoStoreCallIsRetried ==
    \A r \in Req :
        LET q == req[r]
        IN  /\ \A name \in StoreCalls : Cardinality(CallsOf(r, name)) <= 1
            /\ \A i \in FailedCalls(q) :
                   /\ \/ i = Len(q.calls)
                      \/ /\ q.calls[i].call = "CreateFile"
                         /\ i + 1 = Len(q.calls)
                         /\ q.calls[i + 1].call = "DeleteObject"
                   /\ q.pc \in {"done", "cleanup"}
                   /\ q.pc = "done" => q.status >= 400

\* a delete whose metadata DeleteFile failed after two calls that succeeded
C22_Witness ==
    \E r \in Req :
        /\ Done(r, "delete")
        /\ Len(req[r].calls) = 3
        /\ FailedCalls(req[r]) = {3}
        /\ req[r].calls[3].call = "DeleteFile"
        /\ req[r].status = 500

---------------------------------------------------------------------------
(* The audit call of DownloadFile *)

\* what the client receives of request q
Response(q) == <<q.pc, q.status, q.msg, q.headers, q.sent, q.late>>

\* request q carried on from object.Stat() to its response, the store
\* answering ok to Stat and outcome to the copy, the object being there (at)
\* or gone at the copy
Served(q, at, ok, auditOk, outcome, gone) ==
    LET s == StatResult(q, at, ok, auditOk)
    IN  IF s.pc = "copy" THEN CopyResult(s, IF gone THEN {} ELSE at, outcome) ELSE s

\* C23: from every state in which a download is about to call Stat, the
\* response (status, message, headers, bytes sent) is the same with a failing
\* audit call as with a succeeding one, whatever the object store answers
C23_AuditFailureChangesNothing ==
    \A r \in Req :
        (req[r].op = "download" /\ req[r].pc = "stat") =>
            LET q == req[r]
                at == ObjectsAt(q.bucket, q.key)
            IN  \A ok, gone \in BOOLEAN : \A outcome \in CopyOutcomes :
                    /\ Response(StatResult(q, at, ok, TRUE))
                           = Response(StatResult(q, at, ok, FALSE))
                    /\ Response(Served(q, at, ok, TRUE, outcome, gone))
                           = Response(Served(q, at, ok, FALSE, outcome, gone))

\* a download whose audit call failed answered 200 with the whole object
C23_Witness ==
    \E r \in Req :
        /\ Done(r, "download")
        /\ CallsWith(r, "LogAction", "fail") # {}
        /\ req[r].status = 200
        /\ req[r].late = ""
        /\ req[r].sent = req[r].headers.length
        /\ req[r].sent > 0

---------------------------------------------------------------------------
(* The order of the checks of UploadFile *)

\* the checks in the order claimed: does check k turn the form away
CheckFails(k, file, fileType) ==
    CASE k = 1 -> ~file.has
      [] k = 2 -> fileType = ""
      [] k = 3 -> file.size > MaxFileSize
      [] k = 4 -> ~isAllowedContentType(file.ctype)
      [] k = 5 -> fileType \notin {"portfolio-image", "miniature-image", "document"}
      [] k = 6 -> \/ /\ fileType \in {"portfolio-image", "miniature-image"}
                     /\ ~HasPrefix(file.ctype, <<"image/">>)
                  \/ /\ fileType = "document"
                     /\ \A family \in DocumentFamilies : ~HasPrefix(file.ctype, family)

CheckMessage(k, fileType) ==
    CASE k = 1 -> "file is required"
      [] k = 2 -> "fileType is required (portfolio-image, miniature-image, document)"
      [] k = 3 -> "file too large (max 10485760 bytes)"
      [] k = 4 -> "invalid file type"
      [] k = 5 -> "invalid fileType: must be portfolio-image, miniature-image, or document"
      [] k = 6 -> IF fileType = "document"
                  THEN "document requires PDF or Word document content type"
                  ELSE fileType \o " requires image content type"

FailingChecks(file, fileType) == {k \in 1..6 : CheckFails(k, file, fileType)}

FirstOf(S) == CHOOSE k \in S : \A other \in S : k <= other

\* C24: an upload whose file opened answers 400 exactly when one of the six
\* checks fails, with the message of the first failing check in the order
\* file, fileType, size, allow-list, category, category against content type
C24_FirstFailingCheckIsReported ==
    \A r \in Req :
        (Done(r, "upload") /\ ~(req[r].status = 500 /\ req[r].msg = "failed to open file")) =>
            LET failing == FailingChecks(req[r].file, req[r].fileType)
            IN  IF failing = {}
                THEN req[r].status # 400
                ELSE /\ req[r].status = 400
                     /\ req[r].msg = CheckMessage(FirstOf(failing), req[r].fileType)
                     /\ req[r].calls = <<>>

\* the two requests the claim names were turned away: a text file under an
\* unknown category, or an oversized file with no fileType
C24_Witness ==
    \E r \in Req :
        /\ Done(r, "upload")
        /\ \/ /\ req[r].file = TextFile /\ req[r].fileType = "other"
              /\ req[r].msg = "invalid file type"
           \/ /\ req[r].file = BigFile /\ req[r].fileType = ""
              /\ req[r].msg = "fileType is required (portfolio-image, miniature-image, document)"
        /\ Cardinality(FailingChecks(req[r].file, req[r].fileType)) >= 2

---------------------------------------------------------------------------
(* The allow-list of content types *)

AllowedEntries == {AllowedFileTypes[i] : i \in 1..Len(AllowedFileTypes)}

\* C25 as claimed: an upload that passed the checks on the file, the
\* fileType field and the size is turned away with "invalid file type"
\* exactly when its content type is not an entry of AllowedFileTypes,
\* whatever its category
C25_AllowListIsExact ==
    \A r \in Req :
        (/\ Done(r, "upload")
         /\ req[r].file.has /\ req[r].fileType # ""
         /\ req[r].file.size <= MaxFileSize)
        => (req[r].msg = "invalid file type" <=> req[r].file.ctype \notin AllowedEntries)

---------------------------------------------------------------------------
(* What of the client's file name reaches the key *)

\* the count of the uuid value that heads key
UuidCount(key) == CHOOSE n \in 1..Len(UuidTokens) : UuidTokens[n] = key[1]

\* the end of a file name from its last '.' on, when no '/' follows that '.'
LastDotSuffix(name) ==
    LET dots == {i \in 1..Len(name) :
                    /\ name[i] = "."
                    /\ \A j \in (i + 1)..Len(name) : name[j] \notin {".", "/"}}
    IN  IF dots = {} THEN <<>>
        ELSE SubSeq(name, CHOOSE i \in dots : TRUE, Len(name))

\* C26 as claimed: nothing of the file name reaches the key: had the client
\* sent any other file name, the upload would hold the same key
C26_KeyIgnoresFileName ==
    \A r \in Keyed :
        \A other \in NameInputs :
            GenerateKey(UuidCount(req[r].key), other) = req[r].key

\* C26 amended: the key is the uuid followed by the end of the file name
\* from its last '.' on (nothing when a '/' follows that '.' or there is
\* none), so any other file name with the same ending gives the same key
C26_KeyTakesOnlyTheExtension ==
    \A r \in Keyed :
        /\ req[r].key = <<req[r].key[1]>> \o LastDotSuffix(req[r].file.name)
        /\ req[r].key[1] \in {UuidTokens[n] : n \in 1..Len(UuidTokens)}
        /\ \A other \in NameInputs :
               LastDotSuffix(other) = LastDotSuffix(req[r].file.name)
                   => GenerateKey(UuidCount(req[r].key), other) = req[r].key

\* an upload stored a file whose name has a directory part and an extension
C26_Witness ==
    \E r \in Req :
        /\ Done(r, "upload") /\ req[r].status = 200
        /\ Len(req[r].file.name) = 3
        /\ req[r].file.name[1] = "/"
        /\ Len(req[r].key) = 3
        /\ \E other \in NameInputs :
               /\ other # req[r].file.name
               /\ LastDotSuffix(other) = LastDotSuffix(req[r].file.name)

---------------------------------------------------------------------------
(* Rows that disagree with their object or carry an unknown category *)

\* C27: a download that answered 200 and streamed to the end carries the
\* content type and size of the object under its (bucket, key) in
\* Content-Type and Content-Length, and has sent as many bytes as
\* Content-Length says, whatever the row says
C27_HeadersComeFromTheObject ==
    \A r \in Req :
        (Done(r, "download") /\ req[r].status = 200 /\ req[r].late = "") =>
            /\ HasObject(req[r].bucket, req[r].key)
            /\ \A o \in ObjectsAt(req[r].bucket, req[r].key) :
                   /\ req[r].headers.ctype = o.ctype
                   /\ req[r].headers.length = o.size
            /\ req[r].sent = req[r].headers.length

\* a download answered 200 for a row whose mimeType and size both disagree
\* with the object
C27_Witness ==
    \E r \in Req :
        /\ Done(r, "download") /\ req[r].status = 200 /\ req[r].late = ""
        /\ req[r].rec.mimeType # req[r].headers.ctype
        /\ req[r].rec.size # req[r].headers.length
        /\ req[r].sent = 1024

KnownCategories == {"portfolio-image", "miniature-image", "document"}

\* C29: a delete that found a row whose category is none of the three known
\* ones answers 500 "invalid file type in database" having made no call but
\* the lookup, and the row and its object are still there
C29_UnknownCategoryStopsDelete ==
    \A r \in Req :
        (/\ req[r].op = "delete"
         /\ CallsWith(r, "GetFileByID", "ok") # {}
         /\ req[r].rec.fileType \notin KnownCategories)
        => /\ req[r].pc = "done"
           /\ req[r].status = 500
           /\ req[r].msg = "invalid file type in database"
           /\ Len(req[r].calls) = 1
           /\ CallsOf(r, "DeleteObject") = {} /\ CallsOf(r, "DeleteFile") = {}
           /\ RecordsById(req[r].rec.id) # {}
           /\ HasObject(req[r].rec.bucket, req[r].rec.key)

\* a delete found a row with a category left by another writer
C29_Witness ==
    \E r \in Req :
        /\ Done(r, "delete")
        /\ req[r].rec.fileType = "legacy-image"
        /\ req[r].status = 500
        /\ req[r].rec.id \notin removed
        /\ objects # {}

---------------------------------------------------------------------------
(* The key parameter of DownloadFile *)

KeyedCalls == {"GetFileByKey", "GetObject", "Stat", "Read"}

\* C28: the key of a download is its path parameter less one leading '/'
\* when it has one, and the parameter itself otherwise; GetFileByKey,
\* GetObject and the reads of the object all receive that key, under the
\* bucket of the category
C28_KeyIsParamLessOneSlash ==
    \A r \in Req :
        req[r].op = "download" =>
            LET q == req[r]
            IN  /\ \/ q.param = <<"/">> \o q.key
                   \/ q.param = q.key /\ (q.param = <<>> \/ q.param[1] # "/")
                /\ \A i \in 1..Len(q.calls) :
                       q.calls[i].call \in KeyedCalls =>
                           /\ q.calls[i].key = q.key
                           /\ q.calls[i].bucket = fileTypeToBucket(q.fileType)

\* GetFileByKey was asked for a key that keeps a leading '/', an inner '/'
\* and a '..' segment
C28_Witness ==
    \E r \in Req :
        /\ Done(r, "download")
        /\ Len(req[r].param) > 4
        /\ req[r].param[1] = "/" /\ req[r].param[2] = "/" /\ req[r].param[3] = ".."
        /\ \E i \in CallsOf(r, "GetFileByKey") :
               /\ req[r].calls[i].key = Tail(req[r].param)
               /\ req[r].calls[i].key[1] = "/"
        /\ req[r].status = 404

---------------------------------------------------------------------------
(* The url of an upload *)

\* C30: the url of a successful upload is "/api/v1/files/<fileType>/<key>"
\* of its category and key, and a GET of that path comes to DownloadFile with
\* parameters that resolve to the (bucket, key) PutObject and CreateFile
\* received; a download asked with the parameters of a row's url works on
\* that row's (bucket, key)
C30_UrlRoundTrips ==
    /\ \A r \in Req :
           (Done(r, "upload") /\ req[r].status = 200) =>
               LET q == req[r]
                   got == GetFilesParams(q.url)
               IN  /\ q.url = <<"/api/v1/files/", q.fileType, "/">> \o q.key
                   /\ ~fileTypeToBucketErr(got.fileType)
                   /\ \A i \in CallsOf(r, "PutObject") \cup CallsOf(r, "CreateFile") :
                          /\ q.calls[i].bucket = fileTypeToBucket(got.fileType)
                          /\ q.calls[i].key = StripSlash(got.key)
    /\ \A r \in Req : \A f \in records :
           (/\ req[r].op = "download"
            /\ [fileType |-> req[r].fileType, key |-> req[r].param]
                   = GetFilesParams(UploadUrl(f)))
           => /\ req[r].bucket = f.bucket /\ req[r].key = f.key
              /\ \A i \in CallsOf(r, "GetFileByKey") \cup CallsOf(r, "GetObject") :
                     /\ req[r].calls[i].bucket = f.bucket
                     /\ req[r].calls[i].key = f.key

\* a download asked with the parameters of the url of a stored document
\* fetched the object of that row
C30_Witness ==
    \E r \in Req : \E f \in records :
        /\ Done(r, "download") /\ req[r].status = 200
        /\ f.fileType = "document"
        /\ [fileType |-> req[r].fileType, key |-> req[r].param] = GetFilesParams(UploadUrl(f))
        /\ \E i \in CallsOf(r, "GetObject") :
               req[r].calls[i].bucket = f.bucket /\ req[r].calls[i].key = f.key
        /\ req[r].rec = f

---------------------------------------------------------------------------
(* Size and content type in the two stores *)

\* C31: every row an upload created has the size and the content type of
\* the object stored under its (bucket, key), and both are those of the
\* file the client sent
C31_RowMatchesObject ==
    /\ \A f \in records : \A o \in ObjectsAt(f.bucket, f.key) :
           f.size = o.size /\ f.mimeType = o.ctype
    /\ \A r \in Req :
           (Done(r, "upload") /\ req[r].status = 200) =>
               /\ req[r].rec.size = req[r].file.size
               /\ req[r].rec.mimeType = req[r].file.ctype
               /\ \E o \in ObjectsAt(req[r].rec.bucket, req[r].rec.key) :
                      o.size = req[r].file.size /\ o.ctype = req[r].file.ctype

\* a PDF was stored after a PNG, each with its own size and content type
C31_Witness ==
    \E r \in Req :
        /\ Done(r, "upload") /\ req[r].status = 200
        /\ req[r].file = PdfFile
        /\ \E f \in records : f.size = PngFile.size /\ f.mimeType = PngFile.ctype
        /\ Cardinality(objects) = 2

---------------------------------------------------------------------------
(* A copy interrupted after the headers *)

\* C32 as claimed: a download whose copy failed after the 200 status and
\* the headers were written, with part of the body sent, ends without the
\* handler writing an error response
C32_InterruptedCopyWritesNothing ==
    \A r \in Req :
        (/\ Done(r, "download")
         /\ CallsWith(r, "Read", "fail") # {}
         /\ req[r].status = 200
         /\ req[r].sent > 0)
        => req[r].late = ""

---------------------------------------------------------------------------
(* A failed compensating delete *)

\* C33 as claimed: an upload whose compensating DeleteObject failed left an
\* entry in the service's log and answers 500 "failed to create file record"
C33_CleanupFailureIsLogged ==
    \A r \in Req :
        (Done(r, "upload") /\ CallsWith(r, "DeleteObject", "fail") # {})
        => /\ req[r].log # <<>>
           /\ req[r].status = 500
           /\ req[r].msg = "failed to create file record"

---------------------------------------------------------------------------
(* One mapping from category to bucket *)

\* C34: the bucket a row holds is the bucket its PutObject received; a
\* DeleteFile that found the row hands DeleteObject that bucket, and a
\* DownloadFile of the row's key under the row's category hands GetFileByKey
\* and GetObject that bucket
C34_OneBucketMapping ==
    \A r \in Req :
        LET q == req[r]
        IN  /\ (q.op = "upload" /\ q.rec # NoRecord) =>
                   \A i \in CallsOf(r, "PutObject") : q.calls[i].bucket = q.rec.bucket
            /\ (q.op = "delete" /\ q.rec # NoRecord) =>
                   /\ q.pc # "done" => q.bucket = q.rec.bucket
                   /\ \A i \in CallsOf(r, "DeleteObject") : q.calls[i].bucket = q.rec.bucket
            /\ q.op = "download" =>
                   \A f \in records \cup removed :
                       (q.fileType = f.fileType /\ q.key = f.key) =>
                           /\ q.bucket = f.bucket
                           /\ \A i \in CallsOf(r, "GetFileByKey") \cup CallsOf(r, "GetObject") :
                                  q.calls[i].bucket = f.bucket

\* a document was uploaded, downloaded under its category and is now deleted
C34_Witness ==
    \E r \in Req :
        /\ Done(r, "delete") /\ req[r].status = 200
        /\ req[r].rec.fileType = "document"
        /\ req[r].rec \in removed
        /\ \E i \in CallsOf(r, "DeleteObject") : req[r].calls[i].bucket = DocumentsBucket
        /\ \E f \in records : f.fileType = "miniature-image" /\ f.bucket = MiniaturesBucket

---------------------------------------------------------------------------
(* Orphan objects *)

\* an object with no row whose upload is over: no upload between its
\* PutObject and the end of its cleanup holds the object's key
Orphan(o) ==
    /\ RecordsByKey(o.bucket, o.key) = {}
    /\ \A r \in Req :
           ~(/\ req[r].op = "upload" /\ req[r].pc \in {"create", "cleanup"}
             /\ req[r].bucket = o.bucket /\ req[r].key = o.key)

\* C35: no step of an upload, a download or a delete, and no process death,
\* removes an orphan object
C35_OrphansStay ==
    [][\A o \in objects : Orphan(o) => o \in objects']_vars

\* an orphan is still there after a later request deleted another file
C35_Witness ==
    \E o \in objects :
        /\ Orphan(o)
        /\ \A r \in Req : req[r].key # o.key
        /\ \E r \in Req : /\ Done(r, "delete") /\ req[r].status = 200
                           /\ req[r].rec \in removed

---------------------------------------------------------------------------
(* DownloadFile writes nothing *)

WritingCalls == {"PutObject", "DeleteObject", "CreateFile", "DeleteFile"}

\* C36: every step of a download, from its entry to its response on any
\* path, leaves the rows and the objects as they were, and a download's call
\* log holds no PutObject, DeleteObject, CreateFile or metadata DeleteFile
C36_DownloadWritesNothing ==
    [][\A r \in Req :
          (req'[r] # req[r] /\ req'[r].op = "download")
          => /\ objects' = objects
             /\ records' = records
             /\ \A i \in 1..Len(req'[r].calls) : req'[r].calls[i].call \notin WritingCalls
      ]_vars

\* downloads ended on an error path and on the success path with the row
\* and the object of the upload in place
C36_Witness ==
    \E r \in Req :
        /\ Done(r, "download")
        /\ req[r].status \in {404, 500}
        /\ CallsWith(r, "GetFileByKey", "ok") # {}
        /\ req[r].rec \in records
        /\ HasObject(req[r].bucket, req[r].key)

---------------------------------------------------------------------------
(* Two deletes of one id *)

\* C37: with healthy stores, a delete of an uploaded file's id answers 200
\* or 404 however it interleaves with another delete of that id; after a
\* 200 the row and the object are gone, and a 404 found no row
C37_RacingDeletesConverge ==
    \A r \in Req :
        (Done(r, "delete") /\ CallsOf(r, "GetFileByID") # {}) =>
            /\ req[r].status \in {200, 404}
            /\ req[r].status = 200 =>
                   /\ RecordsById(req[r].id) = {}
                   /\ ~HasObject(req[r].rec.bucket, req[r].rec.key)
                   /\ req[r].rec \in removed
            /\ req[r].status = 404 =>
                   /\ req[r].rec = NoRecord
                   /\ RecordsById(req[r].id) = {}
                   /\ \A f \in removed :
                          f.id = req[r].id => ~HasObject(f.bucket, f.key)

\* the second of two deletes that both found the row answered 200, having
\* asked for an object and a row the first had already removed
C37_Witness ==
    \E r \in Req :
        /\ Done(r, "delete") /\ req[r].status = 200
        /\ \E i \in CallsOf(r, "DeleteObject") : ~req[r].calls[i].present
        /\ \E i \in CallsOf(r, "DeleteFile") : ~req[r].calls[i].present
        /\ \E q \in Req \ {r} : req[q].pc = "idle"

----------------------------------------------------------------------------
(* C38 *)

\* the rows stored under the key a download asked for, in a bucket other than
\* the one its category maps to
RowsElsewhere(r) ==
    {f \in records : f.key = req[r].key /\ f.bucket # fileTypeToBucket(req[r].fileType)}

\* C38: a download finds a row only in the bucket its category maps to: a
\* download that answered 200 served a row of that bucket, and a download of
\* a stored key under a category that maps to another bucket answers 404
\* "file not found in database" from GetFileByKey and makes no call to the
\* object store
C38_OtherCategoryFindsNothing ==
    \A r \in Req :
        (Done(r, "download") /\ ~fileTypeToBucketErr(req[r].fileType)) =>
            /\ req[r].rec # NoRecord =>
                   /\ req[r].rec.bucket = fileTypeToBucket(req[r].fileType)
                   /\ req[r].rec.key = req[r].key
            /\ (RowsElsewhere(r) # {} /\ CallsWith(r, "GetFileByKey", "fail") = {}) =>
                   /\ req[r].status = 404
                   /\ req[r].msg = "file not found in database"
                   /\ CallsWith(r, "GetFileByKey", "notfound") # {}
            /\ RowsElsewhere(r) # {} => ObjectStoreCalls(r) = {}

C38_Witness ==
    \E r \in Req :
        /\ Done(r, "download") /\ req[r].status = 404
        /\ ObjectStoreCalls(r) = {}
        /\ \E f \in RowsElsewhere(r) : HasObject(f.bucket, f.key)

----------------------------------------------------------------------------
(* C39 *)

\* the header is "Bearer", one space, and a non-empty token without a space
BearerHeader(header) ==
    /\ Len(header) >= 3
    /\ header[1] = "Bearer" /\ header[2] = " "
    /\ \A i \in 3..Len(header) : header[i] # " "

\* the auth service answered, with status 200 and a body that says valid
ValidReply(reply) ==
    ~reply.err /\ reply.status = 200 /\ <<"valid", "true">> \in reply.fields

\* C39: the middleware fails closed: a request it stops answers 401 and has
\* made no store call; it stops every request without a Bearer header, with
\* no answer from the auth service, with an answer other than 200, or with a
\* body that does not say valid; and a request that is past it, waiting for
\* or inside UploadFile or DeleteFile, carried a Bearer header and got a 200
\* answer that says valid
C39_MiddlewareFailsClosed ==
    \A r \in Req :
        /\ Done(r, "gate") => req[r].status = 401 /\ req[r].calls = <<>>
        /\ (req[r].op = "gate"
               /\ ~(BearerHeader(req[r].header) /\ ValidReply(req[r].reply)))
           => req[r].pc = "done"
        /\ req[r].op \in {"upload", "delete"}
           => BearerHeader(req[r].header) /\ ValidReply(req[r].reply)

C39_Witness ==
    \E r \in Req :
        /\ Done(r, "gate") /\ req[r].status = 401
        /\ BearerHeader(req[r].header)
        /\ req[r].reply.status = 500
        /\ <<"valid", "true">> \in req[r].reply.fields
        /\ \E q \in Req \ {r} : req[q].op = "upload" /\ req[q].pc # "done"

====
